---- MODULE Spec2Model ----
(***************************************************************************)
(* A model of the makita input remapper: the binding model built by        *)
(* config.rs (parse_raw_config and its helpers) and the event resolution   *)
(* core of event_reader.rs (convert_event, emit_event,                     *)
(* emit_nonmapped_event, toggle_modifiers, update_config, ...).            *)
(*                                                                         *)
(* Specifications:                                                         *)
(*   SpecCfg    - parse_raw_config run rule by rule over a drawn rule set  *)
(*   Spec       - the primary task of EventReader over physical key events *)
(*   SpecToggle - arbitrary toggle_modifiers calls on the live chord       *)
(*   SpecOrder  - the same modifier set pressed in two orders              *)
(***************************************************************************)
EXTENDS Integers, Sequences, FiniteSets, TLC

VARIABLES
  \* ---- parse_raw_config (config.rs) ----
  raw,                    \* the RawConfig being parsed
  phase,                  \* which loop of parse_raw_config is running
  pending,                \* rules of the running loop not yet visited
  bindings,               \* Bindings under construction
  mapped_modifiers,       \* MappedModifiers under construction
  \* ---- EventReader (event_reader.rs) ----
  config,                 \* self.config: the loaded contexts
  current_config,         \* self.current_config
  active_layout,          \* self.active_layout
  modifiers,              \* self.modifiers: the live chord
  modifier_was_activated, \* self.modifier_was_activated
  cursor_movement,        \* self.cursor_movement
  scroll_movement,        \* self.scroll_movement
  ruby_service,           \* self.ruby_service.is_some()
  ruby_queue,             \* events handed to the script collaborator
  hung,                   \* the primary task is inside a loop that never exits
  \* ---- environment and virtual device ----
  window,                 \* window class reported by the compositor
  held,                   \* physical keys currently down
  down,                   \* key codes whose last virtual KEY value is 1 or 2
  out,                    \* virtual events emitted while handling the last event
  last,                   \* the last physical event handled, with its resolution
  tap,                    \* the custom-modifier press being watched for a tap, if any
  combo,                  \* custom modifiers used in a combination since their press
  \* ---- chord experiments ----
  orderA, orderB,         \* two press orders of one modifier set
  chordA, chordB,         \* the chords they produce
  \* ---- axis digitizer (event_loop locals and settings) ----
  axis_16_bit,            \* self.settings.axis_16_bit
  deadzone,               \* self.settings.lstick.deadzone
  stick_sample,           \* event.value() of the last stick sample
  axis_value,             \* what get_axis_value returned for it
  is_tablet,              \* event_loop: is_tablet
  max_abs_wheel,          \* event_loop: max_abs_wheel
  abs_wheel_position,     \* event_loop: abs_wheel_position
  \* ---- the five futures of EventReader::start and their locks ----
  reader_settings,        \* self.settings: stick functions, sensitivities, speeds
  device_is_connected,    \* self.device_is_connected
  lstick_position,        \* self.lstick_position
  rstick_position,        \* self.rstick_position
  pc,                     \* where each future of start() stands
  holder,                 \* which future holds each mutex, "none" when free
  \* ---- the physical stream ----
  stream,                 \* events read from the device and not yet taken by next()
  arrived,                \* every physical event so far, in arrival order
  trace,                  \* every handled event with what it emitted, in handling order
  \* ---- synthetic events (magnus_ruby_runtime.rs, event_sender.rs) ----
  synthetic_channel,      \* the mpsc channel from the script callback to the service
  events,                 \* EventSender::start: the batch being forwarded
  sender_pc,              \* where EventSender::start stands
  sent,                   \* every synthetic event sent so far, in sending order
  received,               \* every event receive_synthetic_events returned, in order
  \* ---- event_loop locals of the pad digitizers ----
  dpad_values,            \* event_loop: dpad_values
  triggers_values,        \* event_loop: triggers_values
  pressed                 \* direction buttons whose last convert_event call had value 1

cfgVars == <<raw, phase, pending, bindings, mapped_modifiers>>
readerVars == <<config, current_config, active_layout, modifiers,
                modifier_was_activated, cursor_movement, scroll_movement,
                ruby_service, ruby_queue, hung>>
envVars == <<window, held, down, out, last, tap, combo>>
labVars == <<orderA, orderB, chordA, chordB>>
devVars == <<axis_16_bit, deadzone, stick_sample, axis_value,
             is_tablet, max_abs_wheel, abs_wheel_position>>
taskVars == <<reader_settings, device_is_connected, lstick_position, rstick_position, pc, holder>>
synthVars == <<synthetic_channel, events, sender_pc, sent, received>>
streamVars == <<stream, arrived, trace, synthVars>>
padVars == <<dpad_values, triggers_values, pressed>>
vars == <<raw, phase, pending, bindings, mapped_modifiers,
          config, current_config, active_layout, modifiers,
          modifier_was_activated, cursor_movement, scroll_movement,
          ruby_service, ruby_queue, hung,
          window, held, down, out, last, tap, combo,
          orderA, orderB, chordA, chordB,
          axis_16_bit, deadzone, stick_sample, axis_value,
          is_tablet, max_abs_wheel, abs_wheel_position,
          reader_settings, device_is_connected, lstick_position, rstick_position, pc, holder,
          stream, arrived, trace,
          synthetic_channel, events, sender_pc, sent, received,
          dpad_values, triggers_values, pressed>>

(***************************************************************************)
(* Bounds                                                                  *)
(***************************************************************************)
\* rules per table drawn for one parse_raw_config run
MaxRules == 2
\* physical keys held down at one time
MaxHeld == 3
\* modifiers pressed in one SpecOrder run
MaxChord == 3
\* largest magnitude of a 16-bit stick sample drawn
MaxAxis == 4100
\* largest stick deadzone drawn
MaxDeadzone == 10
\* maximum of a wheel whose every position is drawn as a sample
SmallWheel == 7
\* maximum of a wheel of which chosen positions are drawn
LargeWheel == 100

(***************************************************************************)
(* Event (config.rs 6-11): a tagged value <<tag, code>>.  The derived Ord  *)
(* compares the variant first (Axis < Key < Hold), then the payload.       *)
(***************************************************************************)
AxisTag == 0
KeyTag == 1
HoldTag == 2

AxisEv(a) == <<AxisTag, a>>
KeyEv(c) == <<KeyTag, c>>
Hold == <<HoldTag, 0>>

IsKey(e) == e[1] = KeyTag

EventLt(a, b) == a[1] < b[1] \/ (a[1] = b[1] /\ a[2] < b[2])

\* Axis::from_str: the variant names in declaration order (discriminant = index - 1)
AxisNames == << "BTN_DPAD_UP", "BTN_DPAD_DOWN", "BTN_DPAD_LEFT", "BTN_DPAD_RIGHT",
                "LSTICK_UP", "LSTICK_DOWN", "LSTICK_LEFT", "LSTICK_RIGHT",
                "RSTICK_UP", "RSTICK_DOWN", "RSTICK_LEFT", "RSTICK_RIGHT",
                "SCROLL_WHEEL_UP", "SCROLL_WHEEL_DOWN", "BTN_TL2", "BTN_TR2",
                "ABS_WHEEL_CW", "ABS_WHEEL_CCW" >>

AxisOk(s) == \E i \in DOMAIN AxisNames : AxisNames[i] = s
AxisFromStr(s) == AxisEv((CHOOSE i \in DOMAIN AxisNames : AxisNames[i] = s) - 1)

\* Key::from_str on the key names used here, with their evdev codes
KeyCode == [ KEY_A |-> 30, KEY_B |-> 48, KEY_H |-> 35, KEY_M |-> 50,
             KEY_T |-> 20, KEY_U |-> 22, KEY_X |-> 45, KEY_Y |-> 21,
             KEY_Z |-> 44,
             KEY_LEFTSHIFT |-> 42, KEY_LEFTCTRL |-> 29, KEY_LEFTALT |-> 56,
             KEY_RIGHTSHIFT |-> 54, KEY_RIGHTCTRL |-> 97, KEY_RIGHTALT |-> 100,
             KEY_LEFTMETA |-> 125,
             BTN_0 |-> 256, BTN_TL2 |-> 312, BTN_TR2 |-> 313,
             BTN_DPAD_UP |-> 544, BTN_DPAD_DOWN |-> 545,
             BTN_DPAD_LEFT |-> 546, BTN_DPAD_RIGHT |-> 547 ]

KeyOk(s) == s \in DOMAIN KeyCode
KeyFromStr(s) == KeyEv(KeyCode[s])

\* Relative::from_str
RelativeNames == { "CURSOR_UP", "CURSOR_DOWN", "CURSOR_LEFT", "CURSOR_RIGHT",
                   "SCROLL_UP", "SCROLL_DOWN", "SCROLL_LEFT", "SCROLL_RIGHT" }

(***************************************************************************)
(* Vec helpers                                                             *)
(***************************************************************************)
Range(s) == { s[i] : i \in DOMAIN s }

Contains(s, x) == \E i \in DOMAIN s : s[i] = x

RECURSIVE InsertSorted(_, _)
InsertSorted(x, s) ==
  IF s = <<>> THEN <<x>>
  ELSE IF EventLt(x, Head(s)) THEN <<x>> \o s
  ELSE <<Head(s)>> \o InsertSorted(x, Tail(s))

\* Vec::sort
RECURSIVE SortVec(_)
SortVec(s) == IF s = <<>> THEN <<>> ELSE InsertSorted(Head(s), SortVec(Tail(s)))

\* Vec::dedup: drops consecutive repeats
RECURSIVE DedupVec(_)
DedupVec(s) ==
  IF Len(s) <= 1 THEN s
  ELSE IF s[1] = s[2] THEN DedupVec(Tail(s))
  ELSE <<s[1]>> \o DedupVec(Tail(s))

\* Vec::retain(|x| x != e)
RECURSIVE Retain(_, _)
Retain(s, e) ==
  IF s = <<>> THEN <<>>
  ELSE IF Head(s) = e THEN Retain(Tail(s), e)
  ELSE <<Head(s)>> \o Retain(Tail(s), e)

\* a chord in canonical form: strictly ascending in Event's order
IsCanonical(c) == \A i \in 1..(Len(c) - 1) : EventLt(c[i], c[i + 1])

\* the canonical chord with the members of the set S
RECURSIVE CanonOf(_)
CanonOf(S) ==
  IF S = {} THEN <<>>
  ELSE LET m == CHOOSE x \in S : \A y \in S : x = y \/ EventLt(x, y)
       IN  <<m>> \o CanonOf(S \ {m})

\* HashMap: a function; the empty map
EmptyMap == [x \in {} |-> {}]

\* HashMap::extend(other): every key of other replaces the entry of self
Extend(self, other) == other @@ self

(***************************************************************************)
(* config.rs: the binding model                                            *)
(*                                                                         *)
(* A rule input string is held as its sequence of dash-separated tokens:   *)
(* "KEY_A-KEY_B-KEY_T" is <<"KEY_A","KEY_B","KEY_T">>, "-KEY_T" is         *)
(* <<"","KEY_T">> and "KEY_T" is <<"KEY_T">>.                              *)
(***************************************************************************)
default_modifiers ==
  << KeyFromStr("KEY_LEFTSHIFT"), KeyFromStr("KEY_LEFTCTRL"), KeyFromStr("KEY_LEFTALT"),
     KeyFromStr("KEY_RIGHTSHIFT"), KeyFromStr("KEY_RIGHTCTRL"), KeyFromStr("KEY_RIGHTALT"),
     KeyFromStr("KEY_LEFTMETA") >>

\* parse_modifiers: Key names first, then Axis names; other tokens are ignored
RECURSIVE ParseTokensKeyFirst(_)
ParseTokensKeyFirst(toks) ==
  IF toks = <<>> THEN <<>>
  ELSE LET t == Head(toks)
           rest == ParseTokensKeyFirst(Tail(toks))
       IN  IF KeyOk(t) THEN <<KeyFromStr(t)>> \o rest
           ELSE IF AxisOk(t) THEN <<AxisFromStr(t)>> \o rest
           ELSE rest

parse_modifiers(settings, parameter) ==
  IF parameter \in DOMAIN settings THEN ParseTokensKeyFirst(settings[parameter]) ELSE <<>>

\* get_multi_modifiers, first loop: Axis names first, then Key names
RECURSIVE ParseTokensAxisFirst(_)
ParseTokensAxisFirst(toks) ==
  IF toks = <<>> THEN <<>>
  ELSE LET t == Head(toks)
           rest == ParseTokensAxisFirst(Tail(toks))
       IN  IF AxisOk(t) THEN <<AxisFromStr(t)>> \o rest
           ELSE IF KeyOk(t) THEN <<KeyFromStr(t)>> \o rest
           ELSE rest

RECURSIVE NotDefault(_, _)
NotDefault(mods, mm) ==
  IF mods = <<>> THEN <<>>
  ELSE IF ~Contains(mm.default, Head(mods)) THEN <<Head(mods)>> \o NotDefault(Tail(mods), mm)
  ELSE NotDefault(Tail(mods), mm)

\* a prefix parser that never appends the Hold sentinel
get_multi_modifiers_nohold(mods, mm) ==
  << ParseTokensAxisFirst(mods), NotDefault(ParseTokensAxisFirst(mods), mm) >>

\* get_multi_modifiers(mods, mapped_modifiers) = <<modifiers, custom_modifiers>>
get_multi_modifiers(mods, mm) ==
  LET parsed == ParseTokensAxisFirst(mods)
  IN  << IF mods[1] = "" THEN Append(parsed, Hold) ELSE parsed,
         NotDefault(parsed, mm) >>

\* get_bindings(modifiers, event_string, output): a fresh map with at most one trigger
get_bindings(mods, event_string, output) ==
  IF AxisOk(event_string) THEN (AxisFromStr(event_string) :> (mods :> output))
  ELSE IF KeyOk(event_string) THEN (KeyFromStr(event_string) :> (mods :> output))
  ELSE EmptyMap

\* get_bindings_and_modifiers(input, output, mapped_modifiers)
get_bindings_and_modifiers(input, output, mm) ==
  IF Len(input) >= 2
  THEN LET r == get_multi_modifiers(SubSeq(input, 1, Len(input) - 1), mm)
       IN  << get_bindings(r[1], input[Len(input)], output), r[2] >>
  ELSE << get_bindings(<<>>, input[1], output), <<>> >>

\* one iteration of a rule loop of parse_raw_config on table tbl
RuleStep(b, mm, tbl, rule, output) ==
  LET r == get_bindings_and_modifiers(rule.input, output, mm)
  IN  [ bindings |-> [b EXCEPT ![tbl] = Extend(b[tbl], r[1])],
        mapped_modifiers |-> [mm EXCEPT !.custom = mm.custom \o r[2]] ]

\* the state of parse_raw_config before its first rule loop (lines 196-217)
ParseStart(settings) ==
  [ bindings |-> [remap |-> EmptyMap, movements |-> EmptyMap, rubies |-> EmptyMap],
    mapped_modifiers |->
      [ default |-> default_modifiers,
        custom |-> parse_modifiers(settings, "CUSTOM_MODIFIERS")
                   \o parse_modifiers(settings, "LSTICK_ACTIVATION_MODIFIERS")
                   \o parse_modifiers(settings, "RSTICK_ACTIVATION_MODIFIERS"),
        all |-> <<>> ] ]

\* a finish that concatenates default and custom and neither sorts nor dedups
FinishModifiers_raw(mm) == [mm EXCEPT !.all = mm.all \o mm.default \o mm.custom]

\* lines 238-241
FinishModifiers(mm) ==
  [mm EXCEPT !.all = DedupVec(SortVec(mm.all \o mm.default \o mm.custom))]

(***************************************************************************)
(* Rule sets.  Outputs of remap rules are key-code lists (Vec<Key>).       *)
(***************************************************************************)
KC(name) == KeyCode[name]

RemapPool ==
  { [input |-> <<"KEY_A", "KEY_B", "KEY_T">>, output |-> <<KC("KEY_X")>>],
    [input |-> <<"KEY_B", "KEY_A", "KEY_U">>, output |-> <<KC("KEY_X")>>],
    [input |-> <<"KEY_T">>,                   output |-> <<KC("KEY_Y")>>],
    [input |-> <<"", "KEY_T">>,               output |-> <<KC("KEY_H")>>],
    [input |-> <<"KEY_M", "KEY_U">>,          output |-> <<KC("KEY_X"), KC("KEY_Y")>>],
    [input |-> <<"BTN_DPAD_UP", "KEY_LEFTSHIFT", "BTN_TL2">>, output |-> <<KC("KEY_Z")>>],
    [input |-> <<"KEY_M", "KEY_NONE">>,       output |-> <<KC("KEY_X")>>],
    [input |-> <<"KEY_NONE", "KEY_M", "KEY_Z">>, output |-> <<KC("KEY_H")>>] }

MovementPool ==
  { [input |-> <<"KEY_M", "KEY_T">>, output |-> "CURSOR_UP"],
    [input |-> <<"KEY_T">>,          output |-> "SCROLL_DOWN"],
    [input |-> <<"KEY_M", "KEY_U">>, output |-> "CURSOR_SIDEWAYS"] }

RubyPool ==
  { [input |-> <<"KEY_M", "KEY_T">>, output |-> "script_a"],
    [input |-> <<"KEY_U">>,          output |-> "script_b"] }

SettingsPool ==
  { EmptyMap,
    [CUSTOM_MODIFIERS |-> <<"KEY_A", "BTN_TL2", "KEY_LEFTSHIFT", "KEY_NONE">>],
    [CHAIN_ONLY |-> "false", LSTICK_ACTIVATION_MODIFIERS |-> <<"BTN_DPAD_UP">>] }

UpTo(S, n) == { T \in SUBSET S : Cardinality(T) <= n }

(***************************************************************************)
(* parse_raw_config as a state machine: each action is one iteration of    *)
(* one of its three `for` loops.  A HashMap is iterated in an unspecified  *)
(* order, so an iteration takes any rule not yet visited.                  *)
(***************************************************************************)
PhaseOrder == <<"remap", "rubies", "movements">>

\* the first loop at or after position i that has a rule to visit; 4 when none
NextLoop(r, i) ==
  IF \E j \in i..3 : r[PhaseOrder[j]] # {}
  THEN CHOOSE j \in i..3 : r[PhaseOrder[j]] # {} /\ \A k \in i..(j - 1) : r[PhaseOrder[k]] = {}
  ELSE 4

\* control moves on after the state st = [bindings, mapped_modifiers] was
\* reached in loop i with the rules `rest` left to visit
MoveOn(i, rest, st) ==
  IF rest # {}
  THEN /\ phase' = phase
       /\ pending' = rest
       /\ bindings' = st.bindings
       /\ mapped_modifiers' = st.mapped_modifiers
  ELSE LET j == NextLoop(raw, i + 1)
       IN  /\ phase' = IF j = 4 THEN "done" ELSE PhaseOrder[j]
           /\ pending' = IF j = 4 THEN {} ELSE raw[PhaseOrder[j]]
           /\ bindings' = st.bindings
           /\ mapped_modifiers' = IF j = 4 THEN FinishModifiers(st.mapped_modifiers)
                                  ELSE st.mapped_modifiers

\* lines 219-223
RemapRule ==
  /\ phase = "remap"
  /\ \E rule \in pending :
       MoveOn(1, pending \ {rule},
              RuleStep(bindings, mapped_modifiers, "remap", rule, rule.output))
  /\ UNCHANGED <<raw, readerVars, envVars, labVars, padVars, devVars, taskVars, streamVars>>

\* lines 225-229
RubyRule ==
  /\ phase = "rubies"
  /\ \E rule \in pending :
       MoveOn(2, pending \ {rule},
              RuleStep(bindings, mapped_modifiers, "rubies", rule, rule.output))
  /\ UNCHANGED <<raw, readerVars, envVars, labVars, padVars, devVars, taskVars, streamVars>>

\* lines 231-236; Relative::from_str(..).expect(..) panics on an unknown directive
MovementRule ==
  /\ phase = "movements"
  /\ \E rule \in pending :
       IF rule.output \in RelativeNames
       THEN MoveOn(3, pending \ {rule},
                   RuleStep(bindings, mapped_modifiers, "movements", rule, rule.output))
       ELSE /\ phase' = "panic"
            /\ UNCHANGED <<pending, bindings, mapped_modifiers>>
  /\ UNCHANGED <<raw, readerVars, envVars, labVars, padVars, devVars, taskVars, streamVars>>

\* values of the variables a specification does not use
ReaderIdle ==
  /\ config = <<>>
  /\ current_config = <<>>
  /\ active_layout = 0
  /\ modifiers = <<>>
  /\ modifier_was_activated = TRUE
  /\ cursor_movement = <<0, 0>>
  /\ scroll_movement = <<0, 0>>
  /\ ruby_service = FALSE
  /\ ruby_queue = <<>>
  /\ hung = FALSE

EnvIdle ==
  /\ window = "Default"
  /\ held = {}
  /\ down = {}
  /\ out = <<>>
  /\ last = <<>>
  /\ tap = <<>>
  /\ combo = {}

LabIdle ==
  /\ orderA = <<>>
  /\ orderB = <<>>
  /\ chordA = <<>>
  /\ chordB = <<>>

DevIdle ==
  /\ axis_16_bit = FALSE
  /\ deadzone = 0
  /\ stick_sample = 0
  /\ axis_value = 0
  /\ is_tablet = FALSE
  /\ max_abs_wheel = 0
  /\ abs_wheel_position = 0

PadIdle ==
  /\ dpad_values = <<0, 0>>
  /\ triggers_values = <<0, 0>>
  /\ pressed = {}

TaskIdle ==
  /\ reader_settings = <<>>
  /\ device_is_connected = TRUE
  /\ lstick_position = <<0, 0>>
  /\ rstick_position = <<0, 0>>
  /\ pc = <<>>
  /\ holder = <<>>

SynthIdle ==
  /\ synthetic_channel = <<>>
  /\ events = <<>>
  /\ sender_pc = "idle"
  /\ sent = <<>>
  /\ received = <<>>

StreamIdle ==
  /\ stream = <<>>
  /\ arrived = <<>>
  /\ trace = <<>>
  /\ SynthIdle

CfgIdle ==
  /\ raw = <<>>
  /\ phase = "idle"
  /\ pending = {}
  /\ bindings = <<>>
  /\ mapped_modifiers = <<>>

InitCfg ==
  /\ \E rm \in UpTo(RemapPool, MaxRules), rb \in UpTo(RubyPool, 1),
        mv \in UpTo(MovementPool, 1), st \in SettingsPool :
       raw = [remap |-> rm, rubies |-> rb, movements |-> mv, settings |-> st]
  /\ LET j == NextLoop(raw, 1)
         s0 == ParseStart(raw.settings)
     IN  /\ phase = IF j = 4 THEN "done" ELSE PhaseOrder[j]
         /\ pending = IF j = 4 THEN {} ELSE raw[PhaseOrder[j]]
         /\ bindings = s0.bindings
         /\ mapped_modifiers = IF j = 4 THEN FinishModifiers(s0.mapped_modifiers)
                                ELSE s0.mapped_modifiers
  /\ ReaderIdle /\ EnvIdle /\ LabIdle /\ PadIdle /\ DevIdle /\ TaskIdle /\ StreamIdle

NextCfg == RemapRule \/ RubyRule \/ MovementRule

SpecCfg == InitCfg /\ [][NextCfg]_vars

(***************************************************************************)
(* parse_raw_config as a function: every result the three loops can give,  *)
(* over the orders in which the maps may be iterated.  A load that panics  *)
(* gives no result.                                                        *)
(***************************************************************************)
RECURSIVE LoopResults(_, _, _)
LoopResults(tbl, rules, st) ==
  IF rules = {} THEN {st}
  ELSE UNION { IF tbl = "movements" /\ rule.output \notin RelativeNames
               THEN {}
               ELSE LoopResults(tbl, rules \ {rule},
                                RuleStep(st.bindings, st.mapped_modifiers, tbl, rule, rule.output))
               : rule \in rules }

parse_raw_config(r) ==
  LET a == LoopResults("remap", r.remap, ParseStart(r.settings))
      b == UNION { LoopResults("rubies", r.rubies, st) : st \in a }
      c == UNION { LoopResults("movements", r.movements, st) : st \in b }
  IN  { [ bindings |-> st.bindings,
          settings |-> r.settings,
          mapped_modifiers |-> FinishModifiers(st.mapped_modifiers) ] : st \in c }

(***************************************************************************)
(* Claims about the binding model                                          *)
(***************************************************************************)
\* a rule whose trigger token resolves (Axis names first, then Key names)
WellFormed(rule) == AxisOk(rule.input[Len(rule.input)]) \/ KeyOk(rule.input[Len(rule.input)])

TriggerOf(rule) ==
  LET t == rule.input[Len(rule.input)]
  IN  IF AxisOk(t) THEN AxisFromStr(t) ELSE KeyFromStr(t)

\* the members of the chord a rule writes: its resolvable prefix tokens, and
\* the Hold sentinel for an empty first prefix token
RuleMembers(rule) ==
  IF Len(rule.input) = 1 THEN {}
  ELSE LET pre == SubSeq(rule.input, 1, Len(rule.input) - 1)
       IN  Range(ParseTokensAxisFirst(pre)) \cup (IF pre[1] = "" THEN {Hold} ELSE {})

\* the table holds the rule: its trigger has an entry, under a chord with the
\* rule's members, that gives the rule's output
Holds(table, rule) ==
  /\ TriggerOf(rule) \in DOMAIN table
  /\ \E c \in DOMAIN table[TriggerOf(rule)] :
       /\ Range(c) = RuleMembers(rule)
       /\ table[TriggerOf(rule)][c] = rule.output

\* C4: when the build is done, every well-formed rule of each of the three
\* rule sets is held by its table, also when several rules share a trigger
C4_EveryRuleKept ==
  phase = "done" =>
    \A tbl \in {"remap", "rubies", "movements"} :
      \A rule \in raw[tbl] : WellFormed(rule) => Holds(bindings[tbl], rule)

\* C5: every chord stored in a table is canonical (strictly ascending, hence
\* without repeats), so a rule's chord is the one the live chord takes when
\* exactly the rule's modifiers are held
C5_StoredChordsCanonical ==
  \A tbl \in {"remap", "rubies", "movements"} :
    \A t \in DOMAIN bindings[tbl] :
      \A c \in DOMAIN bindings[tbl][t] : IsCanonical(c)

(***************************************************************************)
(* event_reader.rs: the resolver and emitter.                              *)
(*                                                                         *)
(* The operators below thread a record s through the code of one handler:  *)
(*   s.mods  self.modifiers            s.act  self.modifier_was_activated  *)
(*   s.down  keys down in virt_dev     s.out  events written to virt_dev   *)
(*   s.cm    self.cursor_movement      s.sm   self.scroll_movement         *)
(* An emitted event is <<device, type, code, value>>.                      *)
(***************************************************************************)
\* virt_dev.<dev>.emit(&[InputEvent(type, code, value)])
Emit(s, dev, type, code, value) ==
  [s EXCEPT !.out = Append(@, <<dev, type, code, value>>),
            !.down = IF dev = "keys" /\ type = "KEY"
                     THEN (IF value = 0 THEN @ \ {code} ELSE @ \cup {code})
                     ELSE @]

\* toggle_modifiers with the dedup left out
toggle_modifiers_nodedup(mods, modifier, value, cfg) ==
  IF Contains(cfg.mapped_modifiers.all, modifier)
  THEN CASE value = 1 -> SortVec(Append(mods, modifier))
         [] value = 0 -> Retain(mods, modifier)
         [] OTHER -> mods
  ELSE mods

\* toggle_modifiers with the sort left out
toggle_modifiers_nosort(mods, modifier, value, cfg) ==
  IF Contains(cfg.mapped_modifiers.all, modifier)
  THEN CASE value = 1 -> DedupVec(Append(mods, modifier))
         [] value = 0 -> Retain(mods, modifier)
         [] OTHER -> mods
  ELSE mods

\* toggle_modifiers with the membership test left out
toggle_modifiers_unchecked(mods, modifier, value, cfg) ==
  CASE value = 1 -> DedupVec(SortVec(Append(mods, modifier)))
    [] value = 0 -> Retain(mods, modifier)
    [] OTHER -> mods

\* toggle_modifiers on the chord mods
toggle_modifiers(mods, modifier, value, cfg) ==
  IF Contains(cfg.mapped_modifiers.all, modifier)
  THEN CASE value = 1 -> DedupVec(SortVec(Append(mods, modifier)))
         [] value = 0 -> Retain(mods, modifier)
         [] OTHER -> mods
  ELSE mods

\* released_keys: the outputs of every remap entry under the chord `mods`
\* (the triggers are visited in ascending order here; the code visits them
\* in the map's order, which changes only the order of the releases)
RECURSIVE ReleasedOver(_, _, _)
ReleasedOver(trigs, mods, remap) ==
  IF trigs = <<>> THEN <<>>
  ELSE (IF mods \in DOMAIN remap[Head(trigs)] THEN remap[Head(trigs)][mods] ELSE <<>>)
       \o ReleasedOver(Tail(trigs), mods, remap)

released_keys(mods, cfg) ==
  ReleasedOver(CanonOf(DOMAIN cfg.bindings.remap), mods, cfg.bindings.remap)

\* a bookkeeping that releases every released key, tracked or not
RECURSIVE ReleaseTracked_all(_, _, _)
ReleaseTracked_all(s, keys, cfg) ==
  IF keys = <<>> THEN s
  ELSE ReleaseTracked_all(
         Emit([s EXCEPT !.mods = toggle_modifiers(@, KeyEv(Head(keys)), 0, cfg)],
              "keys", "KEY", Head(keys), 0),
         Tail(keys), cfg)

\* emit_event 727-733: release the released keys that are tracked modifiers
RECURSIVE ReleaseTracked(_, _, _)
ReleaseTracked(s, keys, cfg) ==
  IF keys = <<>> THEN s
  ELSE LET k == Head(keys)
           s1 == IF Contains(cfg.mapped_modifiers.all, KeyEv(k))
                 THEN Emit([s EXCEPT !.mods = toggle_modifiers(@, KeyEv(k), 0, cfg)],
                           "keys", "KEY", k, 0)
                 ELSE s
       IN  ReleaseTracked(s1, Tail(keys), cfg)

\* a release of every member of the chord snapshot, whatever its type
RECURSIVE ReleaseChordKeys_any(_, _)
ReleaseChordKeys_any(s, mods) ==
  IF mods = <<>> THEN s
  ELSE ReleaseChordKeys_any(Emit(s, "keys", "KEY", Head(mods)[2], 0), Tail(mods))

\* emit_event 735-740: release every Key-typed member of the chord snapshot
RECURSIVE ReleaseChordKeys(_, _)
ReleaseChordKeys(s, mods) ==
  IF mods = <<>> THEN s
  ELSE ReleaseChordKeys(IF IsKey(Head(mods)) THEN Emit(s, "keys", "KEY", Head(mods)[2], 0) ELSE s,
                        Tail(mods))

\* the tap-or-combo decision with the flag left set when the modifier goes down
TapOrCombo_keepflag(s, type, code, value) ==
  IF value = 0 /\ ~s.act
  THEN [Emit(Emit(s, "keys", type, code, 1), "keys", type, code, 0) EXCEPT !.act = TRUE]
  ELSE s

\* the tap-or-combo decision shared by emit_event 746-760 and
\* emit_nonmapped_event 783-792 for a custom modifier written as (type, code)
TapOrCombo(s, type, code, value) ==
  IF value = 0 /\ ~s.act
  THEN [Emit(Emit(s, "keys", type, code, 1), "keys", type, code, 0) EXCEPT !.act = TRUE]
  ELSE IF value = 1 THEN [s EXCEPT !.act = FALSE]
  ELSE s

\* emit_event 742-761: the loop over the output keys
RECURSIVE EmitOutputs(_, _, _, _, _)
EmitOutputs(s, keys, value, cfg, release_keys) ==
  IF keys = <<>> THEN s
  ELSE LET k == Head(keys)
           s1 == IF release_keys /\ value # 2
                 THEN [s EXCEPT !.mods = toggle_modifiers(@, KeyEv(k), value, cfg)]
                 ELSE s
           s2 == IF Contains(cfg.mapped_modifiers.custom, KeyEv(k))
                 THEN TapOrCombo(s1, "KEY", k, value)
                 ELSE [Emit(s1, "keys", "KEY", k, value) EXCEPT !.act = TRUE]
       IN  EmitOutputs(s2, Tail(keys), value, cfg, release_keys)

\* emit_event(event_list, value, modifiers, config, release_keys, ignore_modifiers)
emit_event(s, event_list, value, mods, cfg, release_keys, ignore_modifiers) ==
  LET s1 == IF release_keys /\ value # 2
            THEN ReleaseTracked(s, released_keys(mods, cfg), cfg)
            ELSE IF ignore_modifiers THEN ReleaseChordKeys(s, mods)
            ELSE s
  IN  EmitOutputs(s1, event_list, value, cfg, release_keys)

\* emit_nonmapped_event 776-780
RECURSIVE ReleaseAll(_, _, _)
ReleaseAll(s, keys, cfg) ==
  IF keys = <<>> THEN s
  ELSE ReleaseAll(Emit([s EXCEPT !.mods = toggle_modifiers(@, KeyEv(Head(keys)), 0, cfg)],
                       "keys", "KEY", Head(keys), 0),
                  Tail(keys), cfg)

\* the device a passed-through event of the given type is written to (795-801);
\* convert_event is never called with a MISC event
DeviceOf(type) ==
  CASE type = "KEY" -> "keys"
    [] type = "RELATIVE" -> "axis"
    [] type = "ABSOLUTE" -> "abs"

\* emit_nonmapped_event with the toggle of the event itself left out
emit_nonmapped_event_notoggle(s, de, event, value, mods, cfg) ==
  LET s1 == IF Contains(cfg.mapped_modifiers.all, event) /\ value # 2
            THEN ReleaseAll(s, released_keys(mods, cfg), cfg)
            ELSE s
  IN  IF Contains(cfg.mapped_modifiers.custom, event)
      THEN TapOrCombo(s1, de.type, de.code, value)
      ELSE Emit([s1 EXCEPT !.act = TRUE], DeviceOf(de.type), de.type, de.code, de.value)

\* emit_nonmapped_event(default_event, event, value, modifiers, config)
emit_nonmapped_event(s, de, event, value, mods, cfg) ==
  LET s1 == IF Contains(cfg.mapped_modifiers.all, event) /\ value # 2
            THEN ReleaseAll(s, released_keys(mods, cfg), cfg)
            ELSE s
      s2 == [s1 EXCEPT !.mods = toggle_modifiers(@, event, value, cfg)]
  IN  IF Contains(cfg.mapped_modifiers.custom, event)
      THEN TapOrCombo(s2, de.type, de.code, value)
      ELSE Emit([s2 EXCEPT !.act = TRUE], DeviceOf(de.type), de.type, de.code, de.value)

\* emit_movement(movement, value)
emit_movement(s, movement, value) ==
  CASE movement = "CURSOR_UP"    -> [s EXCEPT !.cm[2] = -value]
    [] movement = "CURSOR_DOWN"  -> [s EXCEPT !.cm[2] = value]
    [] movement = "CURSOR_LEFT"  -> [s EXCEPT !.cm[1] = -value]
    [] movement = "CURSOR_RIGHT" -> [s EXCEPT !.cm[1] = value]
    [] movement = "SCROLL_UP"    -> [s EXCEPT !.sm[2] = -value]
    [] movement = "SCROLL_DOWN"  -> [s EXCEPT !.sm[2] = value]
    [] movement = "SCROLL_LEFT"  -> [s EXCEPT !.sm[1] = -value]
    [] movement = "SCROLL_RIGHT" -> [s EXCEPT !.sm[1] = value]

(***************************************************************************)
(* Settings read once by EventReader::new from the default context         *)
(***************************************************************************)
IsDefaultAssoc(c) == c.associations = [client |-> "Default", layout |-> 0]

DefaultConfig(cfgs) == cfgs[CHOOSE i \in DOMAIN cfgs :
                              /\ IsDefaultAssoc(cfgs[i])
                              /\ \A j \in 1..(i - 1) : ~IsDefaultAssoc(cfgs[j])]

Setting(cfgs, name, dflt) ==
  LET st == DefaultConfig(cfgs).settings
  IN  IF name \in DOMAIN st THEN st[name] ELSE dflt

chain_only(cfgs) == Setting(cfgs, "CHAIN_ONLY", "true") = "true"
layout_switcher(cfgs) == KC(Setting(cfgs, "LAYOUT_SWITCHER", "BTN_0"))
notify_layout_switch(cfgs) == Setting(cfgs, "NOTIFY_LAYOUT_SWITCH", "false") = "true"

(***************************************************************************)
(* Context selection                                                       *)
(***************************************************************************)
\* Vec::iter().find(pred): the first config with the association, or none
HasConfig(cfgs, client, layout) ==
  \E i \in DOMAIN cfgs : cfgs[i].associations = [client |-> client, layout |-> layout]

FindConfig(cfgs, client, layout) ==
  cfgs[CHOOSE i \in DOMAIN cfgs :
         /\ cfgs[i].associations = [client |-> client, layout |-> layout]
         /\ \A j \in 1..(i - 1) : cfgs[j].associations # [client |-> client, layout |-> layout]]

\* active_client.rs match_window: a class no context names counts as Default
match_window(cfgs, w) ==
  IF \E i \in DOMAIN cfgs : cfgs[i].associations.client = w THEN w ELSE "Default"

\* one pass of the loop body of change_active_layout (917-921)
Advance(l) == IF l = 3 THEN 0 ELSE l + 1

\* change_active_layout 916-927: the layout the loop stops at, or -1 when
\* it never stops (no slot 0..3 has a context for the window class)
RECURSIVE AdvanceUntil(_, _, _, _)
AdvanceUntil(cfgs, client, l, fuel) ==
  IF fuel = 0 THEN -1
  ELSE IF \E i \in DOMAIN cfgs : /\ cfgs[i].associations.layout = Advance(l)
                                 /\ cfgs[i].associations.client = client
       THEN Advance(l)
       ELSE AdvanceUntil(cfgs, client, Advance(l), fuel - 1)

\* change_active_layout stopping after one advance, defined slot or not
change_active_layout_once(cfgs, l, w) == Advance(l)

change_active_layout(cfgs, l, w) == AdvanceUntil(cfgs, match_window(cfgs, w), l, 4)

\* an update_config that leaves the active context as it is
update_config_keep(cfgs, cur, l, act, w) ==
  [layout |-> l, cfg |-> cur, act |-> act, hung |-> FALSE]

\* update_config: [layout, cfg, act, hung] after it returns (or hangs); the
\* window class is taken to stay the same while one event is handled
update_config(cfgs, cur, l, act, w) ==
  LET client == match_window(cfgs, w)
  IN  IF HasConfig(cfgs, client, l)
      THEN [layout |-> l, cfg |-> FindConfig(cfgs, client, l), act |-> act, hung |-> FALSE]
      ELSE LET l2 == change_active_layout(cfgs, l, w)
           IN  IF l2 = -1
               THEN [layout |-> l, cfg |-> cur, act |-> act, hung |-> TRUE]
               ELSE [layout |-> l2, cfg |-> FindConfig(cfgs, client, l2),
                     act |-> act \/ notify_layout_switch(cfgs), hung |-> FALSE]

(***************************************************************************)
(* convert_event                                                           *)
(***************************************************************************)
HasEntry(table, event, chord) == event \in DOMAIN table /\ chord \in DOMAIN table[event]

\* a core that never hands an event to the script collaborator
ScriptTaken_never(cfg, ruby, event, mods) == FALSE

\* lines 636-658: the event goes to the script collaborator
ScriptTaken(cfg, ruby, event, mods) ==
  ruby /\ HasEntry(cfg.bindings.rubies, event, mods)

\* the branch choice with the chain_only test left out
Resolve_nochain(cfg, chainOnly, event, mods) ==
  LET remap == cfg.bindings.remap
  IN  IF event \in DOMAIN remap
      THEN IF mods \in DOMAIN remap[event] THEN "exact"
           ELSE IF <<Hold>> \in DOMAIN remap[event] THEN "hold"
           ELSE IF HasEntry(cfg.bindings.movements, event, mods) THEN "movement"
           ELSE IF <<>> \in DOMAIN remap[event] THEN "bare"
           ELSE "passthrough"
      ELSE "passthrough"

\* lines 663-711: which branch handles the event under the chord snapshot
Resolve(cfg, chainOnly, event, mods) ==
  LET remap == cfg.bindings.remap
  IN  IF event \in DOMAIN remap
      THEN IF mods \in DOMAIN remap[event] THEN "exact"
           ELSE IF <<Hold>> \in DOMAIN remap[event] /\ (mods # <<>> \/ ~chainOnly) THEN "hold"
           ELSE IF HasEntry(cfg.bindings.movements, event, mods) THEN "movement"
           ELSE IF <<>> \in DOMAIN remap[event] THEN "bare"
           ELSE "passthrough"
      ELSE "passthrough"

\* lines 660-711 on the state s, for the branch `path`
Dispatch(s, path, cfg, de, event, value, send_zero) ==
  LET mods == s.mods
      remap == cfg.bindings.remap
  IN  CASE path = "exact" ->
             LET s1 == emit_event(s, remap[event][mods], value, mods, cfg,
                                  mods = <<>>, mods # <<>>)
             IN  IF send_zero
                 THEN emit_event(s1, remap[event][mods], 0, s1.mods, cfg,
                                 s1.mods = <<>>, s1.mods # <<>>)
                 ELSE s1
        [] path = "hold" ->
             emit_event(s, remap[event][<<Hold>>], value, mods, cfg, FALSE, FALSE)
        [] path = "movement" ->
             IF value <= 1 THEN emit_movement(s, cfg.bindings.movements[event][mods], value)
             ELSE s
        [] path = "bare" ->
             LET s1 == emit_event(s, remap[event][<<>>], value, mods, cfg, TRUE, FALSE)
             IN  IF send_zero
                 THEN emit_event(s1, remap[event][<<>>], 0, s1.mods, cfg, TRUE, FALSE)
                 ELSE s1
        [] path = "passthrough" ->
             emit_nonmapped_event(s, de, event, value, mods, cfg)

\* convert_event(default_event, event, value, send_zero) from the reader state
\* rd = [cfgs, cur, layout, ruby, w] and the shared state s: what is left
\* when it returns (or hangs inside update_config)
convert_event(rd, s, de, event, value, send_zero) ==
  LET u == IF value = 1 THEN update_config(rd.cfgs, rd.cur, rd.layout, s.act, rd.w)
           ELSE [layout |-> rd.layout, cfg |-> rd.cur, act |-> s.act, hung |-> FALSE]
      s0 == [s EXCEPT !.act = u.act]
      base == [layout |-> u.layout, cfg |-> u.cfg, hung |-> u.hung,
               chord |-> s.mods, sent |-> <<>>]
  IN  IF u.hung THEN base @@ [path |-> "hung", s |-> s0]
      ELSE IF ScriptTaken(u.cfg, rd.ruby, event, s.mods)
      THEN [base EXCEPT !.sent = << [script |-> u.cfg.bindings.rubies[event][s.mods],
                                     type |-> de.type, code |-> de.code, value |-> value] >>]
           @@ [path |-> "script", s |-> s0]
      ELSE LET path == Resolve(u.cfg, chain_only(rd.cfgs), event, s.mods)
           IN  base @@ [path |-> path,
                        s |-> Dispatch(s0, path, u.cfg, de, event, value, send_zero)]

(***************************************************************************)
(* Loaded context sets.  A setup lists the config files of one device as   *)
(* [raw, client, layout]; udev_monitor.rs launch_tasks derives client and  *)
(* layout from the file name, and adds an empty default context when the   *)
(* files give none.                                                        *)
(***************************************************************************)
NoSettings == EmptyMap

Raw(rm, rb, mv, st) == [remap |-> rm, rubies |-> rb, movements |-> mv, settings |-> st]

R(input, output) == [input |-> input, output |-> output]

\* a Hold rule next to an exact-chord rule of another trigger
RawHold ==
  Raw({ R(<<"", "KEY_T">>, <<KC("KEY_H")>>), R(<<"KEY_M", "KEY_U">>, <<KC("KEY_X")>>) },
      {}, {}, NoSettings)

\* an exact-chord rule and a bare rule on one trigger
RawPrecedence ==
  Raw({ R(<<"KEY_A", "KEY_B", "KEY_T">>, <<KC("KEY_X")>>), R(<<"KEY_T">>, <<KC("KEY_Y")>>) },
      {}, {}, NoSettings)

\* movement rules on a trigger with and a trigger without a remap rule
RawMovement ==
  Raw({ R(<<"KEY_T">>, <<KC("KEY_Y")>>) }, {},
      { R(<<"KEY_M", "KEY_T">>, "CURSOR_UP"), R(<<"KEY_M", "KEY_U">>, "SCROLL_RIGHT") },
      NoSettings)

\* a rule whose prefix is written in descending order
RawUnsorted ==
  Raw({ R(<<"KEY_B", "KEY_A", "KEY_U">>, <<KC("KEY_X")>>) }, {}, {}, NoSettings)

\* CHAIN_ONLY off, outputs that are modifiers themselves
RawChainOff ==
  Raw({ R(<<"", "KEY_T">>, <<KC("KEY_LEFTSHIFT")>>), R(<<"KEY_U">>, <<KC("KEY_M")>>) },
      {}, {}, [CHAIN_ONLY |-> "false", CUSTOM_MODIFIERS |-> <<"KEY_M">>])

\* a script rule and a remap rule on one trigger and chord
RawScript ==
  Raw({ R(<<"KEY_M", "KEY_T">>, <<KC("KEY_X")>>) },
      { R(<<"KEY_M", "KEY_T">>, "script_a") }, {}, NoSettings)

\* contexts of three associations
RawLayout0 ==
  Raw({ R(<<"KEY_T">>, <<KC("KEY_LEFTSHIFT")>>) }, {}, {}, [NOTIFY_LAYOUT_SWITCH |-> "true"])

RawLayout2 ==
  Raw({ R(<<"KEY_M", "KEY_T">>, <<KC("KEY_X")>>) }, {}, {}, NoSettings)

RawClass ==
  Raw({ R(<<"KEY_T">>, <<KC("KEY_Y")>>), R(<<"KEY_M", "KEY_Z">>, <<KC("KEY_H")>>) },
      {}, {}, NoSettings)

\* a default modifier as chord member and as output
RawShift ==
  Raw({ R(<<"KEY_LEFTSHIFT", "KEY_T">>, <<KC("KEY_Y")>>),
        R(<<"KEY_U">>, <<KC("KEY_LEFTSHIFT")>>) }, {}, {}, NoSettings)

File(r, client, layout) == [raw |-> r, client |-> client, layout |-> layout]

Setups ==
  { << File(RawHold, "Default", 0) >>,
    << File(RawPrecedence, "Default", 0) >>,
    << File(RawMovement, "Default", 0) >>,
    << File(RawUnsorted, "Default", 0) >>,
    << File(RawChainOff, "Default", 0) >>,
    << File(RawScript, "Default", 0) >>,
    << File(RawShift, "Default", 0) >>,
    << File(RawLayout0, "Default", 0), File(RawLayout2, "Default", 2),
       File(RawClass, "term", 0) >> }

\* Config::new_empty
new_empty ==
  [ associations |-> [client |-> "Default", layout |-> 0],
    bindings |-> [remap |-> EmptyMap, movements |-> EmptyMap, rubies |-> EmptyMap],
    settings |-> EmptyMap,
    mapped_modifiers |-> [default |-> <<>>, custom |-> <<>>, all |-> <<>>] ]

\* launch_tasks 113-152: every context list the files of a setup can load as
RECURSIVE LoadFiles(_)
LoadFiles(files) ==
  IF files = <<>> THEN { <<>> }
  ELSE { <<p @@ [associations |-> [client |-> Head(files).client,
                                   layout |-> Head(files).layout]]>> \o rest :
           p \in parse_raw_config(Head(files).raw), rest \in LoadFiles(Tail(files)) }

launch_tasks(files) ==
  { IF \E i \in DOMAIN l : IsDefaultAssoc(l[i]) THEN l ELSE Append(l, new_empty) :
      l \in LoadFiles(files) }

(***************************************************************************)
(* The environment: which physical keys it presses, where the focus is     *)
(***************************************************************************)
EventsIn(t) ==
  DOMAIN t \cup UNION { UNION { Range(c) : c \in DOMAIN t[e] } : e \in DOMAIN t }

EventsNamed(cfg) ==
  EventsIn(cfg.bindings.remap) \cup EventsIn(cfg.bindings.movements)
  \cup EventsIn(cfg.bindings.rubies) \cup Range(cfg.mapped_modifiers.custom)

\* the key codes the loaded contexts name as trigger or modifier, one key no
\* context names and, when there is a context to switch to, the layout switcher
PhysKeys(cfgs) ==
  { e[2] : e \in { x \in UNION { EventsNamed(cfgs[i]) : i \in DOMAIN cfgs } : IsKey(x) } }
  \cup { KC("KEY_Z") } \cup (IF Len(cfgs) > 1 THEN {layout_switcher(cfgs)} ELSE {})

\* the window classes the compositor reports: the classes the contexts name
\* and, when they name one, a class they do not name
Windows(cfgs) ==
  LET named == { cfgs[i].associations.client : i \in DOMAIN cfgs }
  IN  named \cup (IF named = {"Default"} THEN {} ELSE {"other"})

(***************************************************************************)
(* The primary task: event_loop on KEY events                              *)
(***************************************************************************)
Shared == [mods |-> modifiers, act |-> modifier_was_activated, down |-> down,
           out |-> <<>>, cm |-> cursor_movement, sm |-> scroll_movement]

Reader == [cfgs |-> config, cur |-> current_config, layout |-> active_layout,
           ruby |-> ruby_service, w |-> window]

IsCustom(cfg, code) == Contains(cfg.mapped_modifiers.custom, KeyEv(code))

\* custom modifiers, held while the event of key c was handled along `path`
\* under `chord`, that the event combined with
Combined(cfg, c, value, path, chord) ==
  { m \in held \ {c} :
      /\ IsCustom(cfg, m)
      /\ \/ path \in {"exact", "hold"} /\ KeyEv(m) \in Range(chord)
         \/ path = "movement" /\ value <= 1 /\ KeyEv(m) \in Range(chord)
         \/ path = "passthrough" /\ ~IsCustom(cfg, c) }

\* the branches of convert_event that count as a mapped action
MappedPaths == {"script", "exact", "hold", "movement", "bare"}

\* the watch after the event of key c was handled along `path`, emitting o:
\* it starts when a custom modifier without a matching entry goes down,
\* notes every other event handled while the modifier stays down, is
\* dropped when one of them is a mapped action, and ends with the release
TapWatch(cfg, c, value, path, o) ==
  IF value = 1 /\ path = "passthrough" /\ IsCustom(cfg, c)
  THEN [code |-> c, pressOut |-> o, others |-> FALSE, released |-> FALSE]
  ELSE IF tap = <<>> \/ tap.released \/ path \in MappedPaths THEN <<>>
  ELSE IF c = tap.code
       THEN (IF value = 0 THEN [tap EXCEPT !.released = TRUE] ELSE tap)
       ELSE [tap EXCEPT !.others = TRUE]

\* the physical side of a key event: a key goes down when it is up and goes
\* up when it is down; the kernel repeats (value 2) only the key that went
\* down last, while it is down
Physical(c, value) ==
  /\ ~hung
  /\ CASE value = 1 -> c \notin held /\ Cardinality(held) < MaxHeld
       [] value = 0 -> c \in held
       [] value = 2 -> c \in held /\ last # <<>> /\ last.code = c /\ last.value \in {1, 2}
  /\ held' = IF value = 1 THEN held \cup {c}
             ELSE IF value = 0 THEN held \ {c} ELSE held

\* event_loop 278-284 for a key other than the layout switcher going down:
\* convert_event(event, Event::Key(code), value, false)
KeyEvent(c, value) ==
  /\ Physical(c, value)
  /\ ~(c = layout_switcher(config) /\ value = 1)
  /\ c \notin {KC("BTN_TL2"), KC("BTN_TR2")}
  /\ \E r \in {convert_event(Reader, Shared, [type |-> "KEY", code |-> c, value |-> value],
                            KeyEv(c), value, FALSE)} :
         /\ current_config' = r.cfg
         /\ active_layout' = r.layout
         /\ hung' = r.hung
         /\ modifiers' = r.s.mods
         /\ modifier_was_activated' = r.s.act
         /\ down' = r.s.down
         /\ out' = r.s.out
         /\ cursor_movement' = r.s.cm
         /\ scroll_movement' = r.s.sm
         /\ ruby_queue' = r.sent
         /\ last' = [code |-> c, value |-> value, path |-> r.path, chord |-> r.chord,
                     combo |-> c \in combo]
         /\ combo' = (combo \ (IF value = 2 THEN {} ELSE {c}))
                     \cup Combined(r.cfg, c, value, r.path, r.chord)
         /\ tap' = TapWatch(r.cfg, c, value, r.path, r.s.out)
  /\ UNCHANGED <<config, ruby_service, window, cfgVars, labVars, padVars, devVars, taskVars, streamVars>>

\* event_loop 282: the layout switcher goes down, change_active_layout
SwitchLayout ==
  /\ Physical(layout_switcher(config), 1)
  /\ \E l \in {change_active_layout(config, active_layout, window)} :
         /\ hung' = (l = -1)
         /\ active_layout' = IF l = -1 THEN active_layout ELSE l
         /\ modifier_was_activated' =
              IF l # -1 /\ notify_layout_switch(config) THEN TRUE ELSE modifier_was_activated
  /\ out' = <<>>
  /\ ruby_queue' = <<>>
  /\ last' = [code |-> layout_switcher(config), value |-> 1, path |-> "layout",
              chord |-> modifiers, combo |-> FALSE]
  /\ tap' = TapWatch(current_config, layout_switcher(config), 1, "layout", <<>>)
  /\ UNCHANGED <<config, current_config, modifiers, cursor_movement, scroll_movement,
                 ruby_service, window, down, combo, cfgVars, labVars, padVars, devVars, taskVars, streamVars>>

\* the focus moves to a window of another class
FocusChange ==
  /\ ~hung
  /\ \E w \in Windows(config) \ {window} : window' = w
  /\ UNCHANGED <<readerVars, held, down, out, last, tap, combo, cfgVars, labVars, padVars, devVars, taskVars, streamVars>>

\* launch_tasks 88-89 and EventReader::new 78-87, 186-211
Init ==
  /\ \E files \in Setups : config \in launch_tasks(files)
  /\ current_config = DefaultConfig(config)
  /\ active_layout = 0
  /\ modifiers = <<>>
  /\ modifier_was_activated = TRUE
  /\ cursor_movement = <<0, 0>>
  /\ scroll_movement = <<0, 0>>
  /\ ruby_service \in (IF \E i \in DOMAIN config : config[i].bindings.rubies # EmptyMap
                       THEN BOOLEAN ELSE {FALSE})
  /\ ruby_queue = <<>>
  /\ hung = FALSE
  /\ window \in Windows(config)
  /\ held = {}
  /\ down = {}
  /\ out = <<>>
  /\ last = <<>>
  /\ tap = <<>>
  /\ combo = {}
  /\ CfgIdle /\ LabIdle /\ PadIdle /\ DevIdle /\ TaskIdle /\ StreamIdle

Next ==
  \/ \E c \in PhysKeys(config), value \in {0, 1, 2} : KeyEvent(c, value)
  \/ SwitchLayout
  \/ FocusChange

Spec == Init /\ [][Next]_vars

(***************************************************************************)
(* Claims about the resolver and emitter (specification Spec).  Every      *)
(* state of Spec is a state in which the last event is fully handled.      *)
(***************************************************************************)
KeyOut(code, value) == <<"keys", "KEY", code, value>>

InAll(cfg, code) == Contains(cfg.mapped_modifiers.all, KeyEv(code))

\* the contexts loaded from the files with the exact-chord and the bare rule on KEY_T
PrecedenceLoads == launch_tasks(<< File(RawPrecedence, "Default", 0) >>)

\* C1: stuck-key freedom, in its final consequence: once every physical key
\* is released no key is down in the virtual key device
C1_NoStuckKey ==
  (held = {} /\ ~hung) => down = {}

\* C2: no key of the active context's mapped_modifiers.all is down in the
\* virtual key device unless it is a member of the live chord
C2_ModifierDownOnlyInChord ==
  ~hung => \A k \in down : InAll(current_config, k) => Contains(modifiers, KeyEv(k))

\* the branch the stated precedence selects: exact remap, Hold remap,
\* exact movement, bare remap, passthrough
StatedPath(cfg, chainOnly, event, chord) ==
  IF HasEntry(cfg.bindings.remap, event, chord) THEN "exact"
  ELSE IF HasEntry(cfg.bindings.remap, event, <<Hold>>) /\ (chord # <<>> \/ ~chainOnly) THEN "hold"
  ELSE IF HasEntry(cfg.bindings.movements, event, chord) THEN "movement"
  ELSE IF HasEntry(cfg.bindings.remap, event, <<>>) THEN "bare"
  ELSE "passthrough"

Resolved == last # <<>> /\ last.path \notin {"script", "layout", "hung"}

\* C3: convert_event takes the first applicable of exact remap, Hold remap,
\* exact movement, bare remap, passthrough; and with the rules {A,B}+T -> X
\* and T -> Y loaded, a press of T under chord {A,B} emits X and not Y, a
\* press of T under the empty chord emits Y and not X
C3_ResolutionPrecedence ==
  /\ Resolved =>
       last.path = StatedPath(current_config, chain_only(config), KeyEv(last.code), last.chord)
  /\ (config \in PrecedenceLoads /\ Resolved /\ last.code = KC("KEY_T") /\ last.value = 1) =>
       /\ last.chord = <<KeyEv(KC("KEY_A")), KeyEv(KC("KEY_B"))>> =>
            /\ KeyOut(KC("KEY_X"), 1) \in Range(out)
            /\ KeyOut(KC("KEY_Y"), 1) \notin Range(out)
       /\ last.chord = <<>> =>
            /\ KeyOut(KC("KEY_Y"), 1) \in Range(out)
            /\ KeyOut(KC("KEY_X"), 1) \notin Range(out)

\* the key has no remap, movement or script entry of its own
NoOwnEntry(cfg, code) ==
  /\ KeyEv(code) \notin DOMAIN cfg.bindings.remap
  /\ KeyEv(code) \notin DOMAIN cfg.bindings.movements
  /\ KeyEv(code) \notin DOMAIN cfg.bindings.rubies

\* the release of a watched custom modifier has just been handled
TapReleased == tap # <<>> /\ tap.released /\ NoOwnEntry(current_config, tap.code)

Value1s(o) == { i \in DOMAIN o : o[i][4] = 1 }

\* C8 as stated: a custom modifier pressed and released with no mapped
\* action in between emits nothing at its press and exactly its own
\* value-1 and value-0 events at its release
C8_TapAsStated ==
  TapReleased => /\ tap.pressOut = <<>>
                 /\ out = << KeyOut(tap.code, 1), KeyOut(tap.code, 0) >>

\* C8 amended: a custom modifier pressed and released with no other event
\* handled in between emits no value-1 event at its press, and at its
\* release exactly one value-1 event, of its own code, followed by a
\* value-0 event of its own code as the last event emitted
C8_TapAmended ==
  (TapReleased /\ ~tap.others) =>
     /\ Value1s(tap.pressOut) = {}
     /\ Len(out) >= 2
     /\ Value1s(out) = {Len(out) - 1}
     /\ out[Len(out) - 1] = KeyOut(tap.code, 1)
     /\ out[Len(out)] = KeyOut(tap.code, 0)

\* a tap whose press and whose release both came with release bookkeeping
C8_Witness ==
  TapReleased /\ ~tap.others /\ tap.pressOut # <<>> /\ Len(out) > 2

\* C9: the release of a custom modifier that was used in a combination
\* while it was held emits no value-1 event of that modifier
C9_NoTapAfterCombo ==
  (last # <<>> /\ last.value = 0 /\ last.combo) =>
     KeyOut(last.code, 1) \notin Range(out)

\* C10: the Hold entry of the trigger is selected exactly when the trigger
\* has no entry for the live chord and the chord is non-empty or chain_only
\* is off; otherwise resolution goes on to movement, bare key, passthrough
C10_HoldSelection ==
  Resolved =>
    LET cfg == current_config
        e == KeyEv(last.code)
        eligible == /\ HasEntry(cfg.bindings.remap, e, <<Hold>>)
                    /\ ~HasEntry(cfg.bindings.remap, e, last.chord)
                    /\ (last.chord # <<>> \/ ~chain_only(config))
    IN  /\ last.path = "hold" <=> eligible
        /\ (HasEntry(cfg.bindings.remap, e, <<Hold>>) /\ chain_only(config)
            /\ last.chord = <<>>) =>
             last.path = IF HasEntry(cfg.bindings.movements, e, <<>>) THEN "movement"
                         ELSE IF HasEntry(cfg.bindings.remap, e, <<>>) THEN "bare"
                         ELSE "passthrough"

\* a Hold entry fired under a non-empty chord
C10_Witness ==
  Resolved /\ last.path = "hold" /\ last.chord # <<>> /\ out # <<>>

(***************************************************************************)
(* The live chord under toggle_modifiers alone.  SpecToggle applies any    *)
(* sequence of toggle calls, under either of two contexts, to the chord    *)
(* that launch_tasks creates empty; SpecOrder presses one set of modifiers *)
(* in two orders.                                                          *)
(***************************************************************************)
\* a context with an Axis modifier and two Key modifiers of its own
RawModsA ==
  Raw({ R(<<"KEY_M", "BTN_DPAD_UP", "KEY_A", "KEY_T">>, <<KC("KEY_X")>>) }, {}, {}, NoSettings)

\* a context with the default modifiers only
RawModsB == Raw({}, {}, {}, NoSettings)

LabContexts == parse_raw_config(RawModsA) \cup parse_raw_config(RawModsB)

\* the events toggled: modifiers of one or both contexts, and KEY_Z of neither
ToggleEvents ==
  { AxisFromStr("BTN_DPAD_UP"), KeyFromStr("KEY_A"), KeyFromStr("KEY_LEFTSHIFT"),
    KeyFromStr("KEY_M"), KeyFromStr("KEY_Z") }

InitToggle ==
  /\ current_config \in LabContexts
  /\ modifiers = <<>>
  /\ last = <<>>
  /\ config = <<>>
  /\ active_layout = 0
  /\ modifier_was_activated = TRUE
  /\ cursor_movement = <<0, 0>>
  /\ scroll_movement = <<0, 0>>
  /\ ruby_service = FALSE
  /\ ruby_queue = <<>>
  /\ hung = FALSE
  /\ window = "Default" /\ held = {} /\ down = {} /\ out = <<>> /\ tap = <<>> /\ combo = {}
  /\ CfgIdle /\ LabIdle /\ PadIdle /\ DevIdle /\ TaskIdle /\ StreamIdle

\* one call toggle_modifiers(modifier, value, &config)
Toggle ==
  /\ \E m \in ToggleEvents, value \in {-1, 0, 1, 2} :
       /\ modifiers' = toggle_modifiers(modifiers, m, value, current_config)
       /\ last' = [modifier |-> m, value |-> value, before |-> modifiers]
  /\ UNCHANGED <<config, current_config, active_layout, modifier_was_activated,
                 cursor_movement, scroll_movement, ruby_service, ruby_queue, hung,
                 window, held, down, out, tap, combo, cfgVars, labVars, padVars, devVars, taskVars, streamVars>>

\* the active context is replaced between two calls
Retarget ==
  /\ \E c \in LabContexts \ {current_config} : current_config' = c
  /\ last' = <<>>
  /\ UNCHANGED <<config, active_layout, modifiers, modifier_was_activated,
                 cursor_movement, scroll_movement, ruby_service, ruby_queue, hung,
                 window, held, down, out, tap, combo, cfgVars, labVars, padVars, devVars, taskVars, streamVars>>

NextToggle == Toggle \/ Retarget

SpecToggle == InitToggle /\ [][NextToggle]_vars

\* C6: the live chord is strictly ascending in Event's order (sorted, no
\* repeat) in every state; a toggle with value 1 of an event of
\* mapped_modifiers.all adds the event to its members, one with value 0
\* removes it, and any other call leaves the chord as it was
C6_ChordCanonical ==
  /\ IsCanonical(modifiers)
  /\ last # <<>> =>
       LET inAll == Contains(current_config.mapped_modifiers.all, last.modifier)
       IN  CASE inAll /\ last.value = 1 ->
                  Range(modifiers) = Range(last.before) \cup {last.modifier}
             [] inAll /\ last.value = 0 ->
                  Range(modifiers) = Range(last.before) \ {last.modifier}
             [] OTHER -> modifiers = last.before

\* an event was inserted in front of a chord of two or more
C6_Witness ==
  /\ last # <<>> /\ last.value = 1
  /\ Len(last.before) >= 2 /\ Len(modifiers) = Len(last.before) + 1
  /\ modifiers[1] = last.modifier

\* the permutations of the set S
Perms(S) ==
  { p \in [1..Cardinality(S) -> S] : \A i, j \in 1..Cardinality(S) : p[i] = p[j] => i = j }

InitOrder ==
  /\ current_config \in LabContexts
  /\ \E S \in SUBSET (ToggleEvents \cap Range(current_config.mapped_modifiers.all)) :
       /\ S # {} /\ Cardinality(S) <= MaxChord
       /\ \E a \in Perms(S), b \in Perms(S) :
            /\ orderA = [keys |-> a, next |-> 1]
            /\ orderB = [keys |-> b, next |-> 1]
  /\ chordA = <<>>
  /\ chordB = <<>>
  /\ modifiers = <<>>
  /\ last = <<>>
  /\ config = <<>>
  /\ active_layout = 0
  /\ modifier_was_activated = TRUE
  /\ cursor_movement = <<0, 0>>
  /\ scroll_movement = <<0, 0>>
  /\ ruby_service = FALSE
  /\ ruby_queue = <<>>
  /\ hung = FALSE
  /\ window = "Default" /\ held = {} /\ down = {} /\ out = <<>> /\ tap = <<>> /\ combo = {}
  /\ CfgIdle /\ DevIdle /\ TaskIdle /\ StreamIdle /\ PadIdle

\* the next modifier of the first order goes down
PressA ==
  /\ orderA.next <= Len(orderA.keys)
  /\ chordA' = toggle_modifiers(chordA, orderA.keys[orderA.next], 1, current_config)
  /\ orderA' = [orderA EXCEPT !.next = @ + 1]
  /\ UNCHANGED <<orderB, chordB, readerVars, envVars, cfgVars, devVars, taskVars, streamVars, padVars>>

\* the next modifier of the second order goes down
PressB ==
  /\ orderB.next <= Len(orderB.keys)
  /\ chordB' = toggle_modifiers(chordB, orderB.keys[orderB.next], 1, current_config)
  /\ orderB' = [orderB EXCEPT !.next = @ + 1]
  /\ UNCHANGED <<orderA, chordA, readerVars, envVars, cfgVars, devVars, taskVars, streamVars, padVars>>

NextOrder == PressA \/ PressB

SpecOrder == InitOrder /\ [][NextOrder]_vars

AllPressed == orderA.next > Len(orderA.keys) /\ orderB.next > Len(orderB.keys)

\* C7: the same modifiers pressed in two orders, none released, give equal chords
C7_OrderIndependent ==
  AllPressed => chordA = chordB

\* three modifiers, an Axis among them, pressed in two different orders
C7_Witness ==
  /\ AllPressed /\ orderA.keys # orderB.keys
  /\ Len(chordA) = 3 /\ chordA[1][1] = AxisTag

(***************************************************************************)
(* Claims about the movement branch and the passthrough (Spec)             *)
(***************************************************************************)
\* the movement table has an entry for (event, chord) and neither an exact
\* remap entry nor an eligible Hold entry stands before it
MovementDue(cfg, chainOnly, event, chord) ==
  /\ HasEntry(cfg.bindings.movements, event, chord)
  /\ ~HasEntry(cfg.bindings.remap, event, chord)
  /\ ~(HasEntry(cfg.bindings.remap, event, <<Hold>>) /\ (chord # <<>> \/ ~chainOnly))

\* the step handled a key event that reached the resolution branches
HandledStep ==
  /\ last' # <<>>
  /\ last'.path \notin {"script", "layout", "hung"}
  /\ (held' # held \/ last'.value = 2)

\* C11: an event whose (trigger, chord) has a movement entry, with no exact
\* remap entry and no eligible Hold entry before it, whether or not the
\* trigger has a remap entry: with value 0 or 1 the directive is written into
\* its accumulator component, nothing else changes in the accumulators and no
\* key event is emitted; with value 2 both accumulators stay as they are
C11_MovementEntryApplied ==
  [][ (HandledStep /\ MovementDue(current_config', chain_only(config),
                                  KeyEv(last'.code), last'.chord))
      => IF last'.value = 2
         THEN cursor_movement' = cursor_movement /\ scroll_movement' = scroll_movement
         ELSE LET d == current_config'.bindings.movements[KeyEv(last'.code)][last'.chord]
                  s == emit_movement([cm |-> cursor_movement, sm |-> scroll_movement],
                                     d, last'.value)
              IN  /\ cursor_movement' = s.cm
                  /\ scroll_movement' = s.sm
                  /\ out' = <<>> ]_vars

\* the last handled event is one to which no remap, Hold, movement or bare
\* entry applies and which is not a custom modifier
PlainPassthrough ==
  /\ Resolved
  /\ StatedPath(current_config, chain_only(config), KeyEv(last.code), last.chord)
       = "passthrough"
  /\ ~IsCustom(current_config, last.code)

\* the release bookkeeping of the passthrough runs for this event
Bookkept == InAll(current_config, last.code) /\ last.value # 2

\* C12 as stated: such an event emits exactly one virtual event, its own
\* type, code and value, and the chord is toggle(event, value) of the chord
\* it found
C12_PassthroughAsStated ==
  PlainPassthrough =>
    /\ out = << KeyOut(last.code, last.value) >>
    /\ modifiers = toggle_modifiers(last.chord, KeyEv(last.code), last.value, current_config)

\* C12 amended: the event's own type, code and value is the last virtual
\* event emitted; before it come only the value-0 key events of the release
\* bookkeeping (one per output stored under the chord found, and only when
\* the event is in mapped_modifiers.all with a value other than 2); the chord
\* is the chord found, without the released keys, toggled by (event, value)
C12_PassthroughAmended ==
  PlainPassthrough =>
    LET rel == IF Bookkept THEN released_keys(last.chord, current_config) ELSE <<>>
        kept == SelectSeq(last.chord,
                  LAMBDA e : ~(IsKey(e) /\ e[2] \in Range(rel)
                               /\ Contains(current_config.mapped_modifiers.all, e)))
    IN  /\ Len(out) = Len(rel) + 1
        /\ out[Len(out)] = KeyOut(last.code, last.value)
        /\ \A i \in 1..Len(rel) : \E k \in Range(rel) : out[i] = KeyOut(k, 0)
        /\ modifiers = toggle_modifiers(kept, KeyEv(last.code), last.value, current_config)

\* a default modifier was passed through, bookkeeping released an output
\* first, and the chord changed
C12_Witness ==
  /\ PlainPassthrough /\ Bookkept
  /\ Len(out) >= 2 /\ modifiers # last.chord

(***************************************************************************)
(* The stick digitizer: get_axis_value (event_reader.rs 876-886) applied   *)
(* to samples of an 8-bit or a 16-bit axis (specification SpecAxis).       *)
(***************************************************************************)
AbsInt(x) == IF x < 0 THEN -x ELSE x

\* i32 division, which truncates toward zero
TruncDiv(a, b) == IF a >= 0 THEN a \div b ELSE -((-a) \div b)

\* lines 877-880: distance_from_center
Normalized(a16, value) == IF a16 THEN value ELSE (value - 128) * 200

\* get_axis_value(event, deadzone)
get_axis_value(a16, value, dz) ==
  LET distance_from_center == Normalized(a16, value)
  IN  IF AbsInt(distance_from_center) <= dz * 200
      THEN 0
      ELSE TruncDiv(distance_from_center + 2000 - 1, 2000)

\* the raw samples of an axis: 0..255 for an 8-bit source
SampleRange(a16) == IF a16 THEN (-MaxAxis)..MaxAxis ELSE 0..255

\* the raw sample whose centered-and-scaled value is the opposite one
Mirror(a16, value) == IF a16 THEN -value ELSE 256 - value

\* LSTICK_DEADZONE values: none, the default 5, and a larger one
Deadzones == {0, 5, MaxDeadzone}

InitAxis ==
  /\ axis_16_bit \in BOOLEAN
  /\ deadzone \in Deadzones
  /\ stick_sample = IF axis_16_bit THEN 0 ELSE 128
  /\ axis_value = 0
  /\ is_tablet = FALSE
  /\ max_abs_wheel = 0
  /\ abs_wheel_position = 0
  /\ ReaderIdle /\ EnvIdle /\ LabIdle /\ PadIdle /\ CfgIdle /\ TaskIdle /\ StreamIdle

\* the samples that can follow the sample v: the stick moves one unit or
\* flips to the opposite deflection
NextSamples(a16, v) == {v - 1, v + 1, Mirror(a16, v)} \cap SampleRange(a16)

\* event_loop 358: a stick sample is digitized
StickSample ==
  /\ \E v \in NextSamples(axis_16_bit, stick_sample) :
       /\ stick_sample' = v
       /\ axis_value' = get_axis_value(axis_16_bit, v, deadzone)
  /\ UNCHANGED <<axis_16_bit, deadzone, is_tablet, max_abs_wheel, abs_wheel_position,
                 readerVars, envVars, labVars, padVars, cfgVars, taskVars, streamVars>>

NextAxis == StickSample

SpecAxis == InitAxis /\ [][NextAxis]_vars

\* C13: a sample whose normalized value is within deadzone * 200 of the
\* center digitizes to 0, and the digitization is odd: the sample with the
\* opposite normalized value digitizes to the opposite value
C13_DeadzoneSymmetry ==
  /\ AbsInt(Normalized(axis_16_bit, stick_sample)) <= deadzone * 200 => axis_value = 0
  /\ Mirror(axis_16_bit, stick_sample) \in SampleRange(axis_16_bit) =>
       get_axis_value(axis_16_bit, Mirror(axis_16_bit, stick_sample), deadzone) = -axis_value

(***************************************************************************)
(* Context selection alone (specification SpecContext): presses that run   *)
(* update_config, presses of the layout switcher, focus changes, over      *)
(* context sets with gaps in the layouts and layouts outside 0..3.         *)
(***************************************************************************)
\* file sets of one device, by the association their names give
ContextSetups ==
  { << File(RawModsB, "Default", 0), File(RawModsB, "Default", 2) >>,
    << File(RawModsB, "Default", 0), File(RawModsB, "Default", 2),
       File(RawModsB, "term", 0) >>,
    << File(RawModsB, "Default", 0), File(RawModsB, "term", 1),
       File(RawModsB, "term", 3), File(RawModsB, "Default", 3) >>,
    << File(RawModsB, "term", 2) >>,
    << File(RawModsB, "Default", 0), File(RawModsB, "Default", 1),
       File(RawModsB, "term", 5) >>,
    << File(RawModsB, "Default", 0), File(RawModsB, "Default", 7),
       File(RawModsB, "Default", 1) >> }

InitContext ==
  /\ \E files \in ContextSetups : config \in launch_tasks(files)
  /\ current_config = DefaultConfig(config)
  /\ active_layout = 0
  /\ modifiers = <<>>
  /\ modifier_was_activated = TRUE
  /\ cursor_movement = <<0, 0>>
  /\ scroll_movement = <<0, 0>>
  /\ ruby_service = FALSE
  /\ ruby_queue = <<>>
  /\ hung = FALSE
  /\ window \in Windows(config)
  /\ held = {} /\ down = {} /\ out = <<>> /\ last = <<>> /\ tap = <<>> /\ combo = {}
  /\ CfgIdle /\ LabIdle /\ PadIdle /\ DevIdle /\ TaskIdle /\ StreamIdle

\* convert_event 633: an event of value 1 runs update_config
CtxPress ==
  /\ ~hung
  /\ \E u \in {update_config(config, current_config, active_layout,
                             modifier_was_activated, window)} :
       /\ current_config' = u.cfg
       /\ active_layout' = u.layout
       /\ modifier_was_activated' = u.act
       /\ hung' = u.hung
  /\ last' = [op |-> "update", before |-> active_layout, window |-> window]
  /\ UNCHANGED <<config, modifiers, cursor_movement, scroll_movement, ruby_service,
                 ruby_queue, window, held, down, out, tap, combo,
                 cfgVars, labVars, padVars, devVars, taskVars, streamVars>>

\* event_loop 282: the layout switcher goes down
CtxSwitch ==
  /\ ~hung
  /\ \E l \in {change_active_layout(config, active_layout, window)} :
       /\ hung' = (l = -1)
       /\ active_layout' = IF l = -1 THEN active_layout ELSE l
       /\ modifier_was_activated' =
            IF l # -1 /\ notify_layout_switch(config) THEN TRUE ELSE modifier_was_activated
  /\ last' = [op |-> "switch", before |-> active_layout, window |-> window]
  /\ UNCHANGED <<config, current_config, modifiers, cursor_movement, scroll_movement,
                 ruby_service, ruby_queue, window, held, down, out, tap, combo,
                 cfgVars, labVars, padVars, devVars, taskVars, streamVars>>

NextContext == CtxPress \/ CtxSwitch \/ FocusChange

SpecContext == InitContext /\ [][NextContext]_vars

\* the slots 0..3 that have a context for the window class
Slots(cfgs, client) == { l \in 0..3 : HasConfig(cfgs, client, l) }

\* the first slot after l, in cyclic order over 0..3, that is in S
NextSlot(S, l) ==
  LET k == CHOOSE k \in 1..4 : (l + k) % 4 \in S /\ \A j \in 1..(k - 1) : (l + j) % 4 \notin S
  IN  (l + k) % 4

\* the loaded contexts are exactly Default/0 and Default/2
LayoutsZeroTwo ==
  { config[i].associations : i \in DOMAIN config }
    = { [client |-> "Default", layout |-> 0], [client |-> "Default", layout |-> 2] }

\* C14: change_active_layout moves the active layout to the next slot, in
\* cyclic order over 0..3, that has a context for the current window class;
\* with contexts for layouts 0 and 2 it goes 0 -> 2, 2 -> 0 and 3 -> 0
C14_LayoutAdvance ==
  /\ (last # <<>> /\ last.op = "switch" /\ ~hung) =>
       /\ Slots(config, match_window(config, last.window)) # {}
       /\ active_layout = NextSlot(Slots(config, match_window(config, last.window)),
                                   last.before)
  /\ LayoutsZeroTwo =>
       /\ change_active_layout(config, 0, "Default") = 2
       /\ change_active_layout(config, 2, "Default") = 0
       /\ change_active_layout(config, 3, "Default") = 0

\* a switch that skipped an undefined slot
C14_Witness ==
  /\ last # <<>> /\ last.op = "switch" /\ ~hung
  /\ LayoutsZeroTwo /\ last.before = 0 /\ active_layout = 2

\* C15: context resolution always returns, and after update_config the
\* active context is the loaded context of (window class, active layout)
C15_ResolutionTerminates ==
  /\ ~hung
  /\ (last # <<>> /\ last.op = "update") =>
       /\ HasConfig(config, match_window(config, last.window), active_layout)
       /\ current_config.associations =
            [client |-> match_window(config, last.window), layout |-> active_layout]

(***************************************************************************)
(* The absolute wheel: event_loop 290-312 (specification SpecWheel).  A    *)
(* rotation pulse is one call convert_event(event, Axis(dir), 1, true).    *)
(***************************************************************************)
\* a bare rule on one rotation direction; the other direction has a rule
\* under a chord that is never live here and is passed through
RawWheel ==
  Raw({ R(<<"ABS_WHEEL_CW">>, <<KC("KEY_X")>>),
        R(<<"KEY_M", "ABS_WHEEL_CCW">>, <<KC("KEY_Y")>>) }, {}, {}, NoSettings)

\* evdev codes of the absolute axes ABS_WHEEL and ABS_MISC
AbsCode == [ABS_WHEEL |-> 8, ABS_MISC |-> 40]

\* the wheel positions the device reports
WheelSamples(max) ==
  IF max <= SmallWheel THEN 0..max
  ELSE {0, 10, max \div 2, max \div 2 + 10, max - 5, max}

\* the pulse direction with the two wraparound tests left out
WheelBranch_nowrap(value, position, max) ==
  IF value # 0 /\ position # 0
  THEN IF value > position THEN "ABS_WHEEL_CW"
       ELSE IF value < position THEN "ABS_WHEEL_CCW"
       ELSE ""
  ELSE ""

\* event_loop 292-303: the direction of the pulse for sample value at
\* position abs_wheel_position, "" when there is none
WheelBranch(value, position, max) ==
  IF value # 0 /\ position # 0
  THEN LET gap == value - position
       IN  IF gap < TruncDiv(-max, 2) THEN "ABS_WHEEL_CW"
           ELSE IF gap > TruncDiv(max, 2) THEN "ABS_WHEEL_CCW"
           ELSE IF value > position THEN "ABS_WHEEL_CW"
           ELSE IF value < position THEN "ABS_WHEEL_CCW"
           ELSE ""
  ELSE ""

InitWheel ==
  /\ config \in launch_tasks(<< File(RawWheel, "Default", 0) >>)
  /\ current_config = DefaultConfig(config)
  /\ active_layout = 0
  /\ modifiers = <<>>
  /\ modifier_was_activated = TRUE
  /\ cursor_movement = <<0, 0>>
  /\ scroll_movement = <<0, 0>>
  /\ ruby_service = FALSE
  /\ ruby_queue = <<>>
  /\ hung = FALSE
  /\ window = "Default"
  /\ held = {} /\ down = {} /\ out = <<>> /\ last = <<>> /\ tap = <<>> /\ combo = {}
  /\ axis_16_bit = FALSE /\ deadzone = 0 /\ stick_sample = 0 /\ axis_value = 0
  /\ is_tablet \in BOOLEAN
  /\ max_abs_wheel \in {SmallWheel, LargeWheel}
  /\ abs_wheel_position = 0
  /\ CfgIdle /\ LabIdle /\ PadIdle /\ TaskIdle /\ StreamIdle

\* event_loop 290-305: an ABS_WHEEL sample
WheelSample ==
  \E value \in WheelSamples(max_abs_wheel) :
    \E dir \in {WheelBranch(value, abs_wheel_position, max_abs_wheel)} :
      /\ abs_wheel_position' = value
      /\ last' = [kind |-> "wheel", sample |-> value, before |-> abs_wheel_position,
                  pulses |-> IF dir = "" THEN <<>> ELSE <<dir>>]
      /\ IF dir = ""
         THEN /\ out' = <<>>
              /\ UNCHANGED <<current_config, active_layout, hung, modifiers,
                             modifier_was_activated, down, cursor_movement,
                             scroll_movement, ruby_queue>>
         ELSE \E r \in {convert_event(Reader, Shared,
                                      [type |-> "ABSOLUTE", code |-> AbsCode.ABS_WHEEL,
                                       value |-> value],
                                      AxisFromStr(dir), 1, TRUE)} :
                /\ current_config' = r.cfg
                /\ active_layout' = r.layout
                /\ hung' = r.hung
                /\ modifiers' = r.s.mods
                /\ modifier_was_activated' = r.s.act
                /\ down' = r.s.down
                /\ out' = r.s.out
                /\ cursor_movement' = r.s.cm
                /\ scroll_movement' = r.s.sm
                /\ ruby_queue' = r.sent
      /\ UNCHANGED <<config, ruby_service, window, held, tap, combo,
                     axis_16_bit, deadzone, stick_sample, axis_value, is_tablet,
                     max_abs_wheel, cfgVars, labVars, padVars, taskVars, streamVars>>

\* event_loop 306-312: an ABS_MISC event
WheelMisc ==
  \E value \in {0, 15} :
    /\ IF is_tablet = FALSE /\ value = 0
       THEN /\ abs_wheel_position' = 0
            /\ out' = <<>>
       ELSE /\ abs_wheel_position' = abs_wheel_position
            /\ out' = << <<"abs", "ABSOLUTE", AbsCode.ABS_MISC, value>> >>
    /\ last' = [kind |-> "misc", sample |-> value, before |-> abs_wheel_position,
                pulses |-> <<>>]
    /\ UNCHANGED <<readerVars, window, held, down, tap, combo,
                   axis_16_bit, deadzone, stick_sample, axis_value, is_tablet,
                   max_abs_wheel, cfgVars, labVars, padVars, taskVars, streamVars>>

NextWheel == WheelSample \/ WheelMisc

SpecWheel == InitWheel /\ [][NextWheel]_vars

\* the pulse of sample v at position p as stated: none for v = 0, p = 0 or
\* v = p; else CW for v > p and CCW for v < p, inverted when |v - p| > max/2
StatedPulse(v, p, max) ==
  IF v = 0 \/ p = 0 \/ v = p THEN <<>>
  ELSE LET up == v > p
           far == 2 * AbsInt(v - p) > max
       IN  IF up # far THEN <<"ABS_WHEEL_CW">> ELSE <<"ABS_WHEEL_CCW">>

\* what holds of every wheel sample: the pulse is the stated one, the
\* position is the sample, and a sample without pulse emits nothing
WheelSampleOk ==
  (last # <<>> /\ last.kind = "wheel") =>
    /\ last.pulses = StatedPulse(last.sample, last.before, max_abs_wheel)
    /\ abs_wheel_position = last.sample
    /\ last.pulses = <<>> => out = <<>>

\* C16 as stated: every sample gives the stated pulse, and the position is
\* neutral initially and after every ABS_MISC 0 marker
C16_WheelAsStated ==
  /\ WheelSampleOk
  /\ last = <<>> => abs_wheel_position = 0
  /\ (last # <<>> /\ last.kind = "misc" /\ last.sample = 0) => abs_wheel_position = 0

\* C16 amended: every sample gives the stated pulse; the position is neutral
\* initially and, on a device that is not a tablet, after an ABS_MISC 0
\* marker; on a tablet, and for any other ABS_MISC value, the event is
\* forwarded and the position stays
C16_WheelAmended ==
  /\ WheelSampleOk
  /\ last = <<>> => abs_wheel_position = 0
  /\ (last # <<>> /\ last.kind = "misc") =>
       IF ~is_tablet /\ last.sample = 0
       THEN abs_wheel_position = 0 /\ out = <<>>
       ELSE abs_wheel_position = last.before /\ Len(out) = 1

\* the samples 10 then max - 5 gave one CCW pulse
C16_Witness ==
  /\ last # <<>> /\ last.kind = "wheel"
  /\ max_abs_wheel = LargeWheel /\ last.before = 10 /\ last.sample = max_abs_wheel - 5
  /\ last.pulses = <<"ABS_WHEEL_CCW">> /\ out # <<>>


(***************************************************************************)
(* EventReader::start: the event loop and the four motion generators,      *)
(* polled as the five futures of one tokio::join!.  A step is what a       *)
(* future does between two awaits; a lock request is a step of its own.    *)
(***************************************************************************)
Tasks == {"event_loop", "loop_cursor", "loop_scroll", "key_cursor", "key_scroll"}
Locks == {"lstick_position", "rstick_position", "modifiers", "virt_dev",
          "cursor_movement", "scroll_movement"}

\* Settings as EventReader::new reads them (defaults: sensitivities 0, speeds 0)
StickSetting(f, sens) == [function |-> f, sensitivity |-> sens]
ReaderSettings ==
  { [lstick |-> StickSetting("cursor", 0), rstick |-> StickSetting("scroll", 0),
     cursor_speed |-> 0, scroll_speed |-> 0],
    [lstick |-> StickSetting("cursor", 10), rstick |-> StickSetting("scroll", 10),
     cursor_speed |-> 0, scroll_speed |-> 0],
    [lstick |-> StickSetting("bind", 10), rstick |-> StickSetting("cursor", 10),
     cursor_speed |-> 5, scroll_speed |-> 0],
    [lstick |-> StickSetting("scroll", 10), rstick |-> StickSetting("cursor", 0),
     cursor_speed |-> 5, scroll_speed |-> 5] }

\* loop_2d, lines 959-966: which stick drives the subject, and how often
Direction(st, subject) ==
  IF st.lstick.function = subject THEN "left"
  ELSE IF st.rstick.function = subject THEN "right"
  ELSE "disabled"

Sensitivity(st, subject) ==
  IF st.lstick.function = subject THEN st.lstick.sensitivity
  ELSE IF st.rstick.function = subject THEN st.rstick.sensitivity
  ELSE 0

Subject(t) == IF t \in {"loop_cursor", "key_cursor"} THEN "cursor" ELSE "scroll"
StickLock(st, t) ==
  IF Direction(st, Subject(t)) = "left" THEN "lstick_position" ELSE "rstick_position"
StickOf(st, t) ==
  IF Direction(st, Subject(t)) = "left" THEN lstick_position ELSE rstick_position
MovementLock(t) == IF t = "key_cursor" THEN "cursor_movement" ELSE "scroll_movement"
MovementOf(t) == IF t = "key_cursor" THEN cursor_movement ELSE scroll_movement
Speed(st, t) == IF t = "key_cursor" THEN st.cursor_speed ELSE st.scroll_speed

Free(l) == holder[l] = "none"
Goto(t, label) == pc' = [pc EXCEPT ![t] = label]

\* a generator that never evaluates its loop condition to false
LoopHead_forever(connected, inside, outside) == inside

\* `while *self.device_is_connected.lock().await`: the guard is a temporary
\* of the condition, released before the body runs
LoopHead(connected, inside, outside) == IF connected THEN inside ELSE outside

InitTasks ==
  /\ reader_settings \in ReaderSettings
  /\ device_is_connected = TRUE
  /\ lstick_position = <<0, 0>>
  /\ rstick_position = <<0, 0>>
  /\ pc = [t \in Tasks |-> IF t = "event_loop" THEN "next" ELSE "start"]
  /\ holder = [l \in Locks |-> "none"]
  /\ config = <<>> /\ current_config = <<>> /\ active_layout = 0
  /\ modifiers = <<>> /\ modifier_was_activated = TRUE
  /\ cursor_movement = <<0, 0>> /\ scroll_movement = <<0, 0>>
  /\ ruby_service = FALSE /\ ruby_queue = <<>> /\ hung = FALSE
  /\ window = "" /\ held = {} /\ down = {} /\ out = <<>>
  /\ last = [kind |-> "none"]
  /\ tap = <<>> /\ combo = {}
  /\ CfgIdle /\ LabIdle /\ PadIdle /\ DevIdle /\ StreamIdle

TaskFrame ==
  UNCHANGED <<reader_settings, config, current_config, active_layout, modifiers,
              modifier_was_activated, ruby_service, ruby_queue, hung,
              window, held, down, out, tap, combo,
              cfgVars, labVars, padVars, devVars, streamVars>>

\* ---- event_loop ----
\* stream.next() yields a stick sample (lines 356-360, and the right stick's arm)
ReadStick ==
  /\ pc["event_loop"] = "next"
  /\ \E side \in {"lstick", "rstick"} :
       /\ reader_settings[side].function \in {"cursor", "scroll"}
       /\ Goto("event_loop", side)
       /\ last' = [kind |-> side]
  /\ UNCHANGED <<device_is_connected, lstick_position, rstick_position, holder,
                 cursor_movement, scroll_movement>>
  /\ TaskFrame

\* lines 359-360: lock the stick position and store the sample
WriteStick ==
  /\ pc["event_loop"] \in {"lstick", "rstick"}
  /\ \E v \in {0, 1} :
       IF pc["event_loop"] = "lstick"
       THEN /\ Free("lstick_position")
            /\ lstick_position' = <<v, lstick_position[2]>>
            /\ UNCHANGED rstick_position
       ELSE /\ Free("rstick_position")
            /\ rstick_position' = <<v, rstick_position[2]>>
            /\ UNCHANGED lstick_position
  /\ Goto("event_loop", "next")
  /\ UNCHANGED <<device_is_connected, holder, cursor_movement, scroll_movement, last>>
  /\ TaskFrame

\* stream.next() yields a key whose lookup ends in emit_movement
ReadMovement ==
  /\ pc["event_loop"] = "next"
  /\ Goto("event_loop", "cursor_movement")
  /\ last' = [kind |-> "movement"]
  /\ UNCHANGED <<device_is_connected, lstick_position, rstick_position, holder,
                 cursor_movement, scroll_movement>>
  /\ TaskFrame

\* emit_movement line 816
LockCursorMovement ==
  /\ pc["event_loop"] = "cursor_movement"
  /\ Free("cursor_movement")
  /\ holder' = [holder EXCEPT !["cursor_movement"] = "event_loop"]
  /\ Goto("event_loop", "scroll_movement")
  /\ UNCHANGED <<device_is_connected, lstick_position, rstick_position,
                 cursor_movement, scroll_movement, last>>
  /\ TaskFrame

\* emit_movement lines 817-827: both guards dropped on return
WriteMovement ==
  /\ pc["event_loop"] = "scroll_movement"
  /\ Free("scroll_movement")
  /\ \E v \in {0, 1} :
       \/ cursor_movement' = <<v, cursor_movement[2]>> /\ UNCHANGED scroll_movement
       \/ scroll_movement' = <<scroll_movement[1], v>> /\ UNCHANGED cursor_movement
  /\ holder' = [holder EXCEPT !["cursor_movement"] = "none"]
  /\ Goto("event_loop", "next")
  /\ UNCHANGED <<device_is_connected, lstick_position, rstick_position, last>>
  /\ TaskFrame

\* stream.next() yields a key that emit_event or emit_nonmapped_event handles
ReadKey ==
  /\ pc["event_loop"] = "next"
  /\ Goto("event_loop", "virt_dev")
  /\ last' = [kind |-> "key"]
  /\ UNCHANGED <<device_is_connected, lstick_position, rstick_position, holder,
                 cursor_movement, scroll_movement>>
  /\ TaskFrame

\* emit_event lines 723-724: virt_dev, then modifier_was_activated (never contended)
LockSink ==
  /\ pc["event_loop"] = "virt_dev"
  /\ Free("virt_dev")
  /\ holder' = [holder EXCEPT !["virt_dev"] = "event_loop"]
  /\ Goto("event_loop", "modifiers")
  /\ UNCHANGED <<device_is_connected, lstick_position, rstick_position,
                 cursor_movement, scroll_movement, last>>
  /\ TaskFrame

\* toggle_modifiers line 889 under emit_event's guards, then the emission and return
ToggleAndEmit ==
  /\ pc["event_loop"] = "modifiers"
  /\ Free("modifiers")
  /\ holder' = [holder EXCEPT !["virt_dev"] = "none"]
  /\ Goto("event_loop", "next")
  /\ UNCHANGED <<device_is_connected, lstick_position, rstick_position,
                 cursor_movement, scroll_movement, last>>
  /\ TaskFrame

\* lines 268-271: Some(Err(e)) => continue
ReadError ==
  /\ pc["event_loop"] = "next"
  /\ last' = [kind |-> "error"]
  /\ UNCHANGED <<device_is_connected, lstick_position, rstick_position, pc, holder,
                 cursor_movement, scroll_movement>>
  /\ TaskFrame

\* lines 272-275: None => break
StreamEnd ==
  /\ pc["event_loop"] = "next"
  /\ Goto("event_loop", "disconnect")
  /\ last' = [kind |-> "end"]
  /\ UNCHANGED <<device_is_connected, lstick_position, rstick_position, holder,
                 cursor_movement, scroll_movement>>
  /\ TaskFrame

\* lines 617-623: no generator keeps the flag's guard across an await
Disconnect ==
  /\ pc["event_loop"] = "disconnect"
  /\ device_is_connected' = FALSE
  /\ Goto("event_loop", "done")
  /\ UNCHANGED <<lstick_position, rstick_position, holder,
                 cursor_movement, scroll_movement, last>>
  /\ TaskFrame

\* ---- loop_2d ----
GenFrame ==
  /\ UNCHANGED <<device_is_connected, lstick_position, rstick_position,
                 cursor_movement, scroll_movement, last>>
  /\ TaskFrame

\* line 968: if sensitivity != 0
StickStart(t) ==
  /\ pc[t] = "start"
  /\ Goto(t, IF Sensitivity(reader_settings, Subject(t)) # 0 THEN "head" ELSE "done")
  /\ UNCHANGED holder
  /\ GenFrame

\* line 969
StickHead(t) ==
  /\ pc[t] = "head"
  /\ Goto(t, LoopHead(device_is_connected, "stick", "done"))
  /\ UNCHANGED holder
  /\ GenFrame

\* lines 970-977: the stick guard lives to the end of the loop body
StickLockPosition(t) ==
  /\ pc[t] = "stick"
  /\ Free(StickLock(reader_settings, t))
  /\ holder' = [holder EXCEPT ![StickLock(reader_settings, t)] = t]
  /\ Goto(t, IF StickOf(reader_settings, t) # <<0, 0>> THEN "chord" ELSE "sleep")
  /\ GenFrame

\* lines 978-979: the chord guard, then the activation test
StickLockChord(t) ==
  /\ pc[t] = "chord"
  /\ Free("modifiers")
  /\ \/ holder' = [holder EXCEPT !["modifiers"] = t] /\ Goto(t, "sink")
     \/ UNCHANGED holder /\ Goto(t, "sleep")
  /\ GenFrame

\* lines 987-989: emit both axes, then both inner guards are dropped
StickEmit(t) ==
  /\ pc[t] = "sink"
  /\ Free("virt_dev")
  /\ holder' = [holder EXCEPT !["modifiers"] = "none"]
  /\ Goto(t, "sleep")
  /\ GenFrame

\* line 992, and the end of the body: the stick guard is dropped after the sleep
StickWake(t) ==
  /\ pc[t] = "sleep"
  /\ holder' = [holder EXCEPT ![StickLock(reader_settings, t)] = "none"]
  /\ Goto(t, "head")
  /\ GenFrame

\* ---- key_loop_2d ----
\* lines 998-1003: speed 0 returns at once
KeyStart(t) ==
  /\ pc[t] = "start"
  /\ Goto(t, IF Speed(reader_settings, t) = 0 THEN "done" ELSE "head")
  /\ UNCHANGED holder
  /\ GenFrame

\* line 1012
KeyHead(t) ==
  /\ pc[t] = "head"
  /\ Goto(t, LoopHead(device_is_connected, "movement", "final_sleep"))
  /\ UNCHANGED holder
  /\ GenFrame

\* lines 1013-1021
KeyLockMovement(t) ==
  /\ pc[t] = "movement"
  /\ Free(MovementLock(t))
  /\ IF MovementOf(t) = <<0, 0>>
     THEN UNCHANGED holder /\ Goto(t, "head")
     ELSE /\ holder' = [holder EXCEPT ![MovementLock(t)] = t]
          /\ Goto(t, IF MovementOf(t)[1] # 0 THEN "sink_x" ELSE "sink_y")
  /\ GenFrame

\* lines 1022-1026
KeyEmitX(t) ==
  /\ pc[t] = "sink_x"
  /\ Free("virt_dev")
  /\ IF MovementOf(t)[2] # 0
     THEN UNCHANGED holder /\ Goto(t, "sink_y")
     ELSE holder' = [holder EXCEPT ![MovementLock(t)] = "none"] /\ Goto(t, "head")
  /\ GenFrame

\* lines 1027-1031
KeyEmitY(t) ==
  /\ pc[t] = "sink_y"
  /\ Free("virt_dev")
  /\ holder' = [holder EXCEPT ![MovementLock(t)] = "none"]
  /\ Goto(t, "head")
  /\ GenFrame

\* line 1034
KeyFinalSleep(t) ==
  /\ pc[t] = "final_sleep"
  /\ Goto(t, "done")
  /\ UNCHANGED holder
  /\ GenFrame

StickStep(t) ==
  \/ StickStart(t) \/ StickHead(t) \/ StickLockPosition(t)
  \/ StickLockChord(t) \/ StickEmit(t) \/ StickWake(t)

KeyStep(t) ==
  \/ KeyStart(t) \/ KeyHead(t) \/ KeyLockMovement(t)
  \/ KeyEmitX(t) \/ KeyEmitY(t) \/ KeyFinalSleep(t)

NextTasks ==
  \/ ReadStick \/ WriteStick
  \/ ReadMovement \/ LockCursorMovement \/ WriteMovement
  \/ ReadKey \/ LockSink \/ ToggleAndEmit
  \/ ReadError \/ StreamEnd \/ Disconnect
  \/ \E t \in {"loop_cursor", "loop_scroll"} : StickStep(t)
  \/ \E t \in {"key_cursor", "key_scroll"} : KeyStep(t)

\* tokio polls every future of the join! again whenever it is woken, and its
\* mutex hands a released lock to a waiter: a step that stays possible is taken
TasksFairness ==
  /\ WF_vars(Disconnect)
  /\ \A t \in {"loop_cursor", "loop_scroll"} : WF_vars(StickStep(t))
  /\ \A t \in {"key_cursor", "key_scroll"} : WF_vars(KeyStep(t))

SpecTasks == InitTasks /\ [][NextTasks]_vars /\ TasksFairness

AllReturned == \A t \in Tasks : pc[t] = "done"

MaxEvents == 4

StreamSetups == { << File(RawShift, "Default", 0) >>, << File(RawHold, "Default", 0) >> }

\* a reader that takes the newest queued event first
NextEvent_newest(queue) == queue[Len(queue)]

\* event_loop line 266: stream.next() yields the oldest queued event
NextEvent(queue) == Head(queue)

InitStream ==
  /\ \E files \in StreamSetups : config \in launch_tasks(files)
  /\ current_config = DefaultConfig(config)
  /\ active_layout = 0
  /\ modifiers = <<>>
  /\ modifier_was_activated = TRUE
  /\ cursor_movement = <<0, 0>>
  /\ scroll_movement = <<0, 0>>
  /\ ruby_service = FALSE
  /\ ruby_queue = <<>>
  /\ hung = FALSE
  /\ window = "Default"
  /\ held = {}
  /\ down = {}
  /\ out = <<>>
  /\ last = <<>>
  /\ tap = <<>>
  /\ combo = {}
  /\ stream = <<>>
  /\ arrived = <<>>
  /\ trace = <<>>
  /\ SynthIdle
  /\ CfgIdle /\ LabIdle /\ PadIdle /\ DevIdle /\ TaskIdle

\* the device reports a key going down, repeating or going up
Arrive(c, value) ==
  /\ Len(arrived) < MaxEvents
  /\ CASE value = 1 -> c \notin held /\ Cardinality(held) < MaxHeld
       [] value = 0 -> c \in held
       [] value = 2 -> /\ c \in held
                       /\ arrived # <<>>
                       /\ arrived[Len(arrived)].code = c
                       /\ arrived[Len(arrived)].value \in {1, 2}
  /\ held' = IF value = 1 THEN held \cup {c}
             ELSE IF value = 0 THEN held \ {c} ELSE held
  /\ arrived' = Append(arrived, [code |-> c, value |-> value])
  /\ stream' = Append(stream, [n |-> Len(arrived) + 1, code |-> c, value |-> value])
  /\ UNCHANGED <<readerVars, window, down, out, last, tap, combo, trace,
                 synthVars, cfgVars, labVars, padVars, devVars, taskVars>>

\* event_loop 265-284: next(), then convert_event to its end
Take ==
  /\ stream # <<>>
  /\ \E e \in {NextEvent(stream)} :
       /\ stream' = SelectSeq(stream, LAMBDA x : x.n # e.n)
       /\ \E r \in {convert_event(Reader, Shared,
                                  [type |-> "KEY", code |-> e.code, value |-> e.value],
                                  KeyEv(e.code), e.value, FALSE)} :
            /\ current_config' = r.cfg
            /\ active_layout' = r.layout
            /\ hung' = r.hung
            /\ modifiers' = r.s.mods
            /\ modifier_was_activated' = r.s.act
            /\ down' = r.s.down
            /\ out' = r.s.out
            /\ cursor_movement' = r.s.cm
            /\ scroll_movement' = r.s.sm
            /\ ruby_queue' = r.sent
            /\ last' = [code |-> e.code, value |-> e.value, path |-> r.path,
                        chord |-> r.chord, combo |-> FALSE]
            /\ trace' = Append(trace, [n |-> e.n, code |-> e.code, value |-> e.value,
                                       queued |-> Len(stream), out |-> r.s.out])
  /\ UNCHANGED <<config, ruby_service, window, held, tap, combo, arrived,
                 synthVars, cfgVars, labVars, padVars, devVars, taskVars>>

NextStream ==
  \/ \E c \in PhysKeys(config), value \in {0, 1, 2} : Arrive(c, value)
  \/ Take

SpecStream == InitStream /\ [][NextStream]_vars

\* where in the virtual event sequence the emissions of the i-th handled event start
RECURSIVE Offset(_)
Offset(i) == IF i = 1 THEN 0 ELSE Offset(i - 1) + Len(trace[i - 1].out)

\* arrival q is the release that follows press p of one key
ReleaseOf(p, q) ==
  /\ p < q
  /\ arrived[p].value = 1
  /\ arrived[q].value = 0
  /\ arrived[q].code = arrived[p].code
  /\ \A m \in (p + 1)..(q - 1) : ~(arrived[m].code = arrived[p].code /\ arrived[m].value = 0)

\* C18: events are handled one at a time in arrival order, so for a press and
\* the release that follows it every emission of the press comes before every
\* emission of the release in the virtual sequence, and an output key's value 1
\* of the press comes before its value 0 of the release
C18_OrderPreserved ==
  /\ \A i \in DOMAIN trace :
       trace[i].n = i /\ trace[i].code = arrived[i].code /\ trace[i].value = arrived[i].value
  /\ \A i, j \in DOMAIN trace :
       ReleaseOf(trace[i].n, trace[j].n) =>
         /\ Offset(i) + Len(trace[i].out) <= Offset(j)
         /\ \A a \in DOMAIN trace[i].out, b \in DOMAIN trace[j].out :
              ( /\ trace[i].out[a][2] = "KEY" /\ trace[i].out[a][4] = 1
                /\ trace[j].out[b][2] = "KEY" /\ trace[j].out[b][4] = 0
                /\ trace[i].out[a][3] = trace[j].out[b][3] )
              => Offset(i) + a < Offset(j) + b

C18_Witness ==
  \E i, j \in DOMAIN trace :
    /\ ReleaseOf(trace[i].n, trace[j].n)
    /\ trace[i].queued >= 2
    /\ \E k \in {KC("KEY_Y"), KC("KEY_H"), KC("KEY_LEFTSHIFT")} :
         /\ KeyOut(k, 1) \in Range(trace[i].out)
         /\ KeyOut(k, 0) \in Range(trace[j].out)


(***************************************************************************)
(* The active context (specification Spec)                                 *)
(***************************************************************************)
\* the step handled a key going down in convert_event, and update_config returned
PressHandled ==
  /\ held' # held
  /\ last'.value = 1
  /\ last'.path \notin {"layout", "hung"}

\* C19: the active context is always one of the loaded contexts as a whole; it
\* changes only in a step that handles a value-1 event, never for value 0 or 2;
\* after such a step its (window class, layout) is (match_window of the focused
\* class, active layout) and the lookup of that event was made in it
C19_ActiveContext ==
  /\ \E i \in DOMAIN config : config[i] = current_config
  /\ [][ /\ \E i \in DOMAIN config' : config'[i] = current_config'
         /\ current_config' # current_config => PressHandled
         /\ PressHandled =>
              /\ current_config'.associations =
                   [client |-> match_window(config, window), layout |-> active_layout']
              /\ \/ last'.path = "script"
                 \/ last'.path = Resolve(current_config', chain_only(config),
                                         KeyEv(last'.code), last'.chord) ]_vars

C19_Witness ==
  /\ last # <<>>
  /\ last.value = 1
  /\ last.path = "bare"
  /\ current_config.associations = [client |-> "term", layout |-> 0]
  /\ window = "term"


(***************************************************************************)
(* The build as a whole (specification SpecCfg)                            *)
(***************************************************************************)
\* C20: the build never aborts, whatever tokens and directives the rules carry;
\* when it is done a table has entries only for triggers of rules whose
\* trigger token resolves, and every such rule is held under the chord its
\* resolvable prefix tokens form
C20_BuildNeverAborts ==
  /\ phase # "panic"
  /\ phase = "done" =>
       \A tbl \in {"remap", "rubies", "movements"} :
         /\ DOMAIN bindings[tbl] \subseteq
              { TriggerOf(rule) : rule \in { x \in raw[tbl] : WellFormed(x) } }
         /\ \A rule \in raw[tbl] : WellFormed(rule) => Holds(bindings[tbl], rule)


(***************************************************************************)
(* event_loop on the relative wheel: a tick is converted with send_zero    *)
(***************************************************************************)
\* the reader right after EventReader::new for the given config files
ReaderStart(files) ==
  /\ config \in launch_tasks(files)
  /\ current_config = DefaultConfig(config)
  /\ active_layout = 0
  /\ modifiers = <<>>
  /\ modifier_was_activated = TRUE
  /\ cursor_movement = <<0, 0>>
  /\ scroll_movement = <<0, 0>>
  /\ ruby_queue = <<>>
  /\ hung = FALSE
  /\ window = "Default"
  /\ held = {} /\ down = {} /\ out = <<>> /\ last = <<>> /\ tap = <<>> /\ combo = {}

\* a bare and an exact-chord rule on one wheel direction, a Hold rule on the other
RawTick ==
  Raw({ R(<<"SCROLL_WHEEL_UP">>, <<KC("KEY_X")>>),
        R(<<"KEY_M", "SCROLL_WHEEL_UP">>, <<KC("KEY_Y"), KC("KEY_H")>>),
        R(<<"", "SCROLL_WHEEL_DOWN">>, <<KC("KEY_H")>>) }, {}, {}, NoSettings)

\* evdev code of REL_WHEEL
RelWheelCode == 8

\* the tick values a wheel reports (a plain wheel: -1, 1; others report more)
TickValues == {-2, -1, 0, 1, 2}

\* event_loop 285-289: which axis event a tick value is converted as, "" for none
TickBranch(value) ==
  IF value = -1 THEN "SCROLL_WHEEL_DOWN"
  ELSE IF value = 1 THEN "SCROLL_WHEEL_UP"
  ELSE ""

InitTick ==
  /\ ReaderStart(<< File(RawTick, "Default", 0) >>)
  /\ ruby_service = FALSE
  /\ CfgIdle /\ LabIdle /\ PadIdle /\ DevIdle /\ TaskIdle /\ StreamIdle

\* event_loop 285-289: a REL_WHEEL event
RelTick ==
  \E value \in TickValues :
    \E dir \in {TickBranch(value)} :
      /\ IF dir = ""
         THEN /\ out' = <<>>
              /\ last' = [code |-> -1, value |-> value, path |-> "none",
                          chord |-> modifiers, combo |-> FALSE, outputs |-> <<>>]
              /\ UNCHANGED <<current_config, active_layout, hung, modifiers,
                             modifier_was_activated, down, cursor_movement,
                             scroll_movement, ruby_queue>>
         ELSE \E r \in {convert_event(Reader, Shared,
                                      [type |-> "RELATIVE", code |-> RelWheelCode,
                                       value |-> value],
                                      AxisFromStr(dir), 1, TRUE)} :
                /\ current_config' = r.cfg
                /\ active_layout' = r.layout
                /\ hung' = r.hung
                /\ modifiers' = r.s.mods
                /\ modifier_was_activated' = r.s.act
                /\ down' = r.s.down
                /\ out' = r.s.out
                /\ cursor_movement' = r.s.cm
                /\ scroll_movement' = r.s.sm
                /\ ruby_queue' = r.sent
                /\ last' = [code |-> -1, value |-> value, path |-> r.path,
                            chord |-> r.chord, combo |-> FALSE,
                            outputs |->
                              LET m == r.cfg.bindings.remap[AxisFromStr(dir)]
                              IN  CASE r.path = "exact" -> m[r.chord]
                                    [] r.path = "hold" -> m[<<Hold>>]
                                    [] r.path = "bare" -> m[<<>>]
                                    [] OTHER -> <<>>]
      /\ UNCHANGED <<config, ruby_service, window, held, tap, combo,
                     cfgVars, labVars, padVars, devVars, taskVars, streamVars>>

NextTick ==
  \/ \E c \in PhysKeys(config), value \in {0, 1, 2} : KeyEvent(c, value)
  \/ RelTick

SpecTick == InitTick /\ [][NextTick]_vars

\* the sequence has a value-1 event of the key and, later, a value-0 event of it
Pulsed(seq, k) ==
  \E a, b \in DOMAIN seq : a < b /\ seq[a] = KeyOut(k, 1) /\ seq[b] = KeyOut(k, 0)

\* C21: a wheel tick of +1 or -1 that resolves to an exact-chord, Hold or bare
\* entry emits, within its handling, value 1 and then value 0 of every output
\* key of the entry; a tick of any other value emits nothing
C21_WheelPulse ==
  (last # <<>> /\ last.code = -1) =>
    IF last.value \in {-1, 1}
    THEN last.path \in {"exact", "hold", "bare"} =>
           \A i \in DOMAIN last.outputs : Pulsed(out, last.outputs[i])
    ELSE out = <<>>


(***************************************************************************)
(* event_loop on the trigger axes ABS_Z and ABS_RZ, STADIA off             *)
(***************************************************************************)
\* a bare and an exact-chord rule on the left trigger; the right one has none
RawTrigger ==
  Raw({ R(<<"BTN_TL2">>, <<KC("KEY_X")>>),
        R(<<"KEY_M", "BTN_TL2">>, <<KC("KEY_Y")>>) }, {}, {}, NoSettings)

\* evdev codes of the trigger axes, and the slot of triggers_values each uses
TriggerAxes ==
  { [name |-> "ABS_Z", code |-> 2, slot |-> 1, button |-> "BTN_TL2"],
    [name |-> "ABS_RZ", code |-> 5, slot |-> 2, button |-> "BTN_TR2"] }

\* the trigger pressures the device reports
TriggerSamples == {0, 1, 255}

\* lines 492-502 (547-559): match (event.value(), triggers_values.N); the
\* value convert_event is called with, -1 for no call
TriggerBranch(value, state) ==
  IF value = 0 /\ state = 1 THEN 0
  ELSE IF state = 0 THEN 1
  ELSE -1

InitTrigger ==
  /\ ReaderStart(<< File(RawTrigger, "Default", 0) >>)
  /\ ruby_service = FALSE
  /\ dpad_values = <<0, 0>>
  /\ triggers_values = <<0, 0>>
  /\ pressed = {}
  /\ CfgIdle /\ LabIdle /\ DevIdle /\ TaskIdle /\ StreamIdle

\* event_loop 490-502 and 547-559: a sample on ABS_Z or ABS_RZ
TriggerSample ==
  \E ax \in TriggerAxes, sample \in TriggerSamples :
    \E v \in {TriggerBranch(sample, triggers_values[ax.slot])} :
      /\ triggers_values' = IF v = -1 THEN triggers_values
                            ELSE [triggers_values EXCEPT ![ax.slot] = v]
      /\ last' = [code |-> -1, value |-> v, axis |-> ax.name, sample |-> sample,
                  before |-> triggers_values[ax.slot], combo |-> FALSE]
      /\ IF v = -1
         THEN /\ out' = <<>>
              /\ UNCHANGED <<current_config, active_layout, hung, modifiers,
                             modifier_was_activated, down, cursor_movement,
                             scroll_movement, ruby_queue>>
         ELSE \E r \in {convert_event(Reader, Shared,
                                      [type |-> "ABSOLUTE", code |-> ax.code,
                                       value |-> sample],
                                      AxisFromStr(ax.button), v, FALSE)} :
                /\ current_config' = r.cfg
                /\ active_layout' = r.layout
                /\ hung' = r.hung
                /\ modifiers' = r.s.mods
                /\ modifier_was_activated' = r.s.act
                /\ down' = r.s.down
                /\ out' = r.s.out
                /\ cursor_movement' = r.s.cm
                /\ scroll_movement' = r.s.sm
                /\ ruby_queue' = r.sent
      /\ UNCHANGED <<config, ruby_service, window, held, tap, combo, dpad_values, pressed,
                     cfgVars, labVars, devVars, taskVars, streamVars>>

NextTrigger ==
  \/ \E c \in PhysKeys(config), value \in {0, 1, 2} : KeyEvent(c, value)
  \/ TriggerSample

SpecTrigger == InitTrigger /\ [][NextTrigger]_vars

\* C22: a trigger sample generates a press exactly when it is nonzero and the
\* trigger state is released, a release exactly when it is zero and the state
\* is pressed, and nothing otherwise (so nothing for a zero sample while released)
C22_TriggerEdges ==
  (last # <<>> /\ last.code = -1) =>
    /\ last.value = 1 <=> (last.sample # 0 /\ last.before = 0)
    /\ last.value = 0 <=> (last.sample = 0 /\ last.before = 1)
    /\ last.value = -1 <=> ~(last.sample # 0 /\ last.before = 0)
                           /\ ~(last.sample = 0 /\ last.before = 1)


(***************************************************************************)
(* Locks and schedule of the motion generators (specification SpecTasks)   *)
(***************************************************************************)
Generators == Tasks \ {"event_loop"}

\* C23: a generator that is in its sleep interval holds no shared lock, so
\* both stick-position locks are free for the event loop while it sleeps
C23_NoLockAcrossSleep ==
  \A t \in Generators :
    pc[t] \in {"sleep", "final_sleep"} =>
      /\ \A l \in Locks : holder[l] # t
      /\ Free("lstick_position") /\ Free("rstick_position")


(***************************************************************************)
(* Script hooks next to remap and movement rules                           *)
(***************************************************************************)
\* a script, a bare remap rule and a movement rule on one trigger and chord
RawScriptMove ==
  Raw({ R(<<"KEY_T">>, <<KC("KEY_Y")>>) }, { R(<<"KEY_T">>, "script_b") },
      { R(<<"KEY_T">>, "CURSOR_UP") }, NoSettings)

\* a default context that notifies layout switches, with a custom modifier
RawNotify ==
  Raw({ R(<<"KEY_M", "KEY_U">>, <<KC("KEY_X")>>) }, {}, {},
      [NOTIFY_LAYOUT_SWITCH |-> "true", CUSTOM_MODIFIERS |-> <<"KEY_M">>])

ScriptSetups ==
  { << File(RawScript, "Default", 0) >>,
    << File(RawScriptMove, "Default", 0) >>,
    << File(RawNotify, "Default", 0), File(RawNotify, "Default", 1),
       File(RawScript, "term", 0) >> }

InitScript ==
  /\ \E files \in ScriptSetups : ReaderStart(files)
  /\ ruby_service \in BOOLEAN
  /\ CfgIdle /\ LabIdle /\ PadIdle /\ DevIdle /\ TaskIdle /\ StreamIdle

NextScript ==
  \/ \E c \in PhysKeys(config), value \in {0, 1, 2} : KeyEvent(c, value)
  \/ SwitchLayout
  \/ FocusChange

SpecScript == InitScript /\ [][NextScript]_vars

\* the step handled a key event in convert_event, and update_config returned
KeyHandled ==
  /\ last' # <<>>
  /\ last'.path \notin {"layout", "hung"}
  /\ (held' # held \/ (last'.value = 2 /\ window' = window))

\* the script-hook table of the context the event is looked up in has an entry
\* for the event under the chord that is live when the event arrives
ScriptDue ==
  /\ ruby_service
  /\ HasEntry(current_config'.bindings.rubies, KeyEv(last'.code), modifiers)

\* C24 as stated: a due script hook takes the event, nothing is emitted, and
\* the chord, the activated flag and both accumulators are as before the event
C24_ScriptAsStated ==
  [][ (KeyHandled /\ ScriptDue) =>
        /\ last'.path = "script"
        /\ Len(ruby_queue') = 1
        /\ out' = <<>>
        /\ modifiers' = modifiers
        /\ modifier_was_activated' = modifier_was_activated
        /\ cursor_movement' = cursor_movement
        /\ scroll_movement' = scroll_movement ]_vars

\* the context update of a value-1 event advanced the layout and notified
NotifiedAdvance ==
  /\ last'.value = 1
  /\ active_layout' # active_layout
  /\ notify_layout_switch(config)

\* C24 amended: as stated, except that the activated flag is set when the
\* context update that precedes the script check advanced the layout with
\* the layout notification on
C24_ScriptAmended ==
  [][ (KeyHandled /\ ScriptDue) =>
        /\ last'.path = "script"
        /\ Len(ruby_queue') = 1
        /\ out' = <<>>
        /\ modifiers' = modifiers
        /\ modifier_was_activated' =
             (IF NotifiedAdvance THEN TRUE ELSE modifier_was_activated)
        /\ cursor_movement' = cursor_movement
        /\ scroll_movement' = scroll_movement ]_vars

C24_Witness ==
  /\ last # <<>>
  /\ last.path = "script"
  /\ last.code = KC("KEY_T")
  /\ ruby_queue # <<>>
  /\ out = <<>>
  /\ HasEntry(current_config.bindings.remap, KeyEv(KC("KEY_T")), last.chord)


(***************************************************************************)
(* Rounding of the stick digitizer (specification SpecAxis)                *)
(***************************************************************************)
\* the least integer not below a / b, for b > 0
CeilDiv(a, b) == IF a >= 0 THEN (a + b - 1) \div b ELSE -((-a) \div b)

\* C25: outside the deadzone the digitized value is the ceiling of
\* normalized / 2000, for negative as for positive normalized values
C25_CeilingOutsideDeadzone ==
  AbsInt(Normalized(axis_16_bit, stick_sample)) > deadzone * 200 =>
    axis_value = CeilDiv(Normalized(axis_16_bit, stick_sample), 2000)


(***************************************************************************)
(* event_loop on the hat axes ABS_HAT0X and ABS_HAT0Y                      *)
(***************************************************************************)
\* a bare rule on one direction, an exact-chord rule on another, and a key
\* rule whose chord has a direction and a key as members
RawHat ==
  Raw({ R(<<"BTN_DPAD_LEFT">>, <<KC("KEY_X")>>),
        R(<<"KEY_M", "BTN_DPAD_UP">>, <<KC("KEY_Y")>>),
        R(<<"BTN_DPAD_RIGHT", "KEY_M", "KEY_U">>, <<KC("KEY_H"), KC("KEY_X")>>) },
      {}, {}, NoSettings)

\* evdev codes of the hat axes, the slot of dpad_values each uses, and the
\* direction buttons of its negative and positive side
HatAxes ==
  { [name |-> "ABS_HAT0X", code |-> 16, slot |-> 1,
     neg |-> "BTN_DPAD_LEFT", pos |-> "BTN_DPAD_RIGHT"],
    [name |-> "ABS_HAT0Y", code |-> 17, slot |-> 2,
     neg |-> "BTN_DPAD_UP", pos |-> "BTN_DPAD_DOWN"] }

\* the hat positions a device reports, and one value outside them
HatSamples == {-1, 0, 1, 2}

NoCall == [button |-> "", value |-> -1]

\* lines 315-332 (335-353): match event.value(); which direction button
\* convert_event is called for and with which value
HatBranch(ax, sample, state) ==
  CASE sample = -1 -> [button |-> ax.neg, value |-> 1]
    [] sample = 1 -> [button |-> ax.pos, value |-> 1]
    [] sample = 0 /\ state = -1 -> [button |-> ax.neg, value |-> 0]
    [] sample = 0 /\ state = 1 -> [button |-> ax.pos, value |-> 0]
    [] OTHER -> NoCall

\* dpad_values.N after the sample
HatState(sample, state) == IF sample \in {-1, 0, 1} THEN sample ELSE state

InitHat ==
  /\ ReaderStart(<< File(RawHat, "Default", 0) >>)
  /\ ruby_service = FALSE
  /\ dpad_values = <<0, 0>>
  /\ triggers_values = <<0, 0>>
  /\ pressed = {}
  /\ CfgIdle /\ LabIdle /\ DevIdle /\ TaskIdle /\ StreamIdle

\* event_loop 314-355: a sample on ABS_HAT0X or ABS_HAT0Y
HatSample ==
  \E ax \in HatAxes, sample \in HatSamples :
    \E b \in {HatBranch(ax, sample, dpad_values[ax.slot])} :
      /\ dpad_values' = [dpad_values EXCEPT ![ax.slot] = HatState(sample, @)]
      /\ pressed' = CASE b.value = 1 -> pressed \cup {b.button}
                      [] b.value = 0 -> pressed \ {b.button}
                      [] OTHER -> pressed
      /\ IF b = NoCall
         THEN /\ out' = <<>>
              /\ last' = [code |-> -1, value |-> b.value, button |-> b.button,
                          axis |-> ax.name, sample |-> sample,
                          before |-> dpad_values[ax.slot], combo |-> FALSE,
                          path |-> "none", chord |-> modifiers, outputs |-> <<>>]
              /\ UNCHANGED <<current_config, active_layout, hung, modifiers,
                             modifier_was_activated, down, cursor_movement,
                             scroll_movement, ruby_queue>>
         ELSE \E r \in {convert_event(Reader, Shared,
                                      [type |-> "ABSOLUTE", code |-> ax.code,
                                       value |-> sample],
                                      AxisFromStr(b.button), b.value, FALSE)} :
                /\ last' = [code |-> -1, value |-> b.value, button |-> b.button,
                            axis |-> ax.name, sample |-> sample,
                            before |-> dpad_values[ax.slot], combo |-> FALSE,
                            path |-> r.path, chord |-> r.chord,
                            outputs |-> IF r.path = "exact"
                                        THEN r.cfg.bindings.remap[AxisFromStr(b.button)][r.chord]
                                        ELSE <<>>]
                /\ current_config' = r.cfg
                /\ active_layout' = r.layout
                /\ hung' = r.hung
                /\ modifiers' = r.s.mods
                /\ modifier_was_activated' = r.s.act
                /\ down' = r.s.down
                /\ out' = r.s.out
                /\ cursor_movement' = r.s.cm
                /\ scroll_movement' = r.s.sm
                /\ ruby_queue' = r.sent
      /\ UNCHANGED <<config, ruby_service, window, held, tap, combo, triggers_values,
                     cfgVars, labVars, devVars, taskVars, streamVars>>

NextHat ==
  \/ \E c \in PhysKeys(config), value \in {0, 1, 2} : KeyEvent(c, value)
  \/ HatSample

SpecHat == InitHat /\ [][NextHat]_vars

\* C26: on one hat axis a press is generated exactly on a transition of the
\* axis state into -1 or +1, a release exactly on a transition to 0, and a
\* sample equal to the current state generates no event
C26_HatEdges ==
  (last # <<>> /\ last.code = -1) =>
    /\ last.value = 1 <=> (last.sample \in {-1, 1} /\ last.before # last.sample)
    /\ last.value = 0 <=> (last.sample = 0 /\ last.before # 0)
    /\ last.sample = last.before => last.value = -1


(***************************************************************************)
(* The exact-chord emission (specification SpecHat: chords with direction  *)
(* buttons and keys as members, key and direction triggers)                *)
(***************************************************************************)
\* value-0 key events for the Key-typed members of a chord, in chord order
RECURSIVE KeyReleases(_)
KeyReleases(chord) ==
  IF chord = <<>> THEN <<>>
  ELSE (IF IsKey(Head(chord)) THEN <<KeyOut(Head(chord)[2], 0)>> ELSE <<>>)
       \o KeyReleases(Tail(chord))

\* the output keys of the exact entry the last event resolved to
ExactOutputs ==
  IF last.code = -1 THEN last.outputs
  ELSE current_config.bindings.remap[KeyEv(last.code)][last.chord]

\* C27: an exact match under a non-empty chord emits first one value-0 key
\* event per Key-typed chord member and none for an Axis-typed member, then
\* only events of its output keys, and the chord is what it was before
C27_IgnoreModifiers ==
  (last # <<>> /\ last.path = "exact" /\ last.chord # <<>>) =>
    LET rel == KeyReleases(last.chord)
    IN  /\ Len(out) >= Len(rel)
        /\ SubSeq(out, 1, Len(rel)) = rel
        /\ \A i \in (Len(rel) + 1)..Len(out) : out[i][3] \in Range(ExactOutputs)
        /\ modifiers = last.chord

C27_Witness ==
  /\ last # <<>>
  /\ last.path = "exact"
  /\ last.code = KC("KEY_U")
  /\ last.value = 1
  /\ \E e \in Range(last.chord) : ~IsKey(e)
  /\ out = <<KeyOut(KC("KEY_M"), 0), KeyOut(KC("KEY_H"), 1), KeyOut(KC("KEY_X"), 1)>>
  /\ dpad_values = <<1, 0>>
  /\ pressed = {"BTN_DPAD_RIGHT"}
  /\ held = {KC("KEY_U"), KC("KEY_M")}
  /\ down = {KC("KEY_H"), KC("KEY_X")}


(***************************************************************************)
(* Release bookkeeping of emit_event (specification Spec)                  *)
(***************************************************************************)
\* the step handled a key event through emit_event with release_keys: the
\* entry under the empty chord, reached as exact match or as bare entry
ReleaseKeysStep ==
  /\ last' # <<>>
  /\ \/ last'.path = "bare"
     \/ last'.path = "exact" /\ last'.chord = <<>>
  /\ (held' # held \/ (last'.value = 2 /\ window' = window))

\* the output keys bound anywhere in remap under the chord live before the
\* event that are tracked modifiers
BookedKeys ==
  { k \in Range(released_keys(modifiers, current_config')) : InAll(current_config', k) }

\* how many value-0 events the bookkeeping emits
BookedLen ==
  Len(SelectSeq(released_keys(modifiers, current_config'),
                LAMBDA k : InAll(current_config', k)))

BareOutputs == Range(current_config'.bindings.remap[KeyEv(last'.code)][<<>>])

Value2Frame ==
  /\ modifiers' = modifiers
  /\ \A i \in DOMAIN out' : out'[i][4] = 2

\* C28 as stated: with value 0 or 1 the keys that get a value-0 event from
\* the bookkeeping are the booked keys that are not in the chord after the
\* event; with value 2 nothing is released and the chord is unchanged
C28_BookkeepingAsStated ==
  [][ ReleaseKeysStep =>
        IF last'.value = 2 THEN Value2Frame
        ELSE { k \in BookedKeys : KeyOut(k, 0) \in Range(out') }
             = { k \in BookedKeys : KeyEv(k) \notin Range(modifiers') } ]_vars

\* C28 amended: with value 0 or 1 the emission starts with the value-0 events
\* of exactly the booked keys, each is taken out of the chord, and a booked
\* key is in the chord after the event only when it is an output key of this
\* entry and the value is 1; with value 2 nothing is released and the chord
\* is unchanged
C28_BookkeepingAmended ==
  [][ ReleaseKeysStep =>
        IF last'.value = 2 THEN Value2Frame
        ELSE /\ Len(out') >= BookedLen
             /\ { out'[i] : i \in 1..BookedLen } = { KeyOut(k, 0) : k \in BookedKeys }
             /\ \A i \in (BookedLen + 1)..Len(out') : out'[i][3] \in BareOutputs
             /\ \A k \in BookedKeys :
                  KeyEv(k) \in Range(modifiers') => (k \in BareOutputs /\ last'.value = 1)
      ]_vars

C28_Witness ==
  /\ last # <<>>
  /\ last.path = "exact"
  /\ last.chord = <<>>
  /\ last.code = KC("KEY_U")
  /\ last.value = 1
  /\ out = <<KeyOut(KC("KEY_LEFTSHIFT"), 0), KeyOut(KC("KEY_LEFTSHIFT"), 1)>>
  /\ modifiers = <<KeyEv(KC("KEY_LEFTSHIFT"))>>


(***************************************************************************)
(* loop_2d: one iteration of the position-driven generator                  *)
(***************************************************************************)
\* HashMap::get(name).unwrap_or(default)
GetOr(st, name, default) == IF name \in DOMAIN st THEN st[name] ELSE default

\* EventReader::new: the Stick records and the inversion flags of self.settings
StickSettings(st) ==
  [ lstick |-> [function |-> GetOr(st, "LSTICK", "cursor"),
                sensitivity |-> GetOr(st, "LSTICK_SENSITIVITY", 0),
                activation_modifiers |-> parse_modifiers(st, "LSTICK_ACTIVATION_MODIFIERS")],
    rstick |-> [function |-> GetOr(st, "RSTICK", "scroll"),
                sensitivity |-> GetOr(st, "RSTICK_SENSITIVITY", 0),
                activation_modifiers |-> parse_modifiers(st, "RSTICK_ACTIVATION_MODIFIERS")],
    invert_cursor_axis |-> GetOr(st, "INVERT_CURSOR_AXIS", FALSE),
    invert_scroll_axis |-> GetOr(st, "INVERT_SCROLL_AXIS", FALSE) ]

\* the activation chords a settings file lists: none, one key, two keys in
\* ascending and in descending key-code order
ActivationLists ==
  { <<>>, <<"KEY_LEFTSHIFT">>, <<"KEY_LEFTCTRL", "KEY_LEFTSHIFT">>,
    <<"KEY_LEFTSHIFT", "KEY_LEFTCTRL">> }

StickFiles ==
  { [LSTICK |-> f, LSTICK_SENSITIVITY |-> sens, LSTICK_ACTIVATION_MODIFIERS |-> act,
     RSTICK_SENSITIVITY |-> 10, INVERT_CURSOR_AXIS |-> inv] :
      f \in {"cursor", "bind"}, sens \in {0, 10}, act \in ActivationLists,
      inv \in BOOLEAN }

\* loop_2d 959-966: the activation chord of the stick that drives the subject
Activation(st, subject) ==
  IF st.lstick.function = subject THEN st.lstick.activation_modifiers
  ELSE IF st.rstick.function = subject THEN st.rstick.activation_modifiers
  ELSE <<>>

\* start 237-238: the inversion flag and the two event codes of a subject
InvertAxis(st, subject) ==
  IF subject = "cursor" THEN st.invert_cursor_axis ELSE st.invert_scroll_axis
EventIds(subject) == IF subject = "cursor" THEN <<0, 1>> ELSE <<12, 11>>

RelOut(code, value) == <<"axis", "REL", code, value>>

\* the stick positions the event loop stores
StickPositions == { <<x, y>> : x \in {-2, 0, 3}, y \in {-1, 0} }

\* loop_2d 977-991: what one iteration emits
loop_2d(st, subject, position, chord) ==
  IF position[1] # 0 \/ position[2] # 0
  THEN IF Len(Activation(st, subject)) = 0 \/ Activation(st, subject) = chord
       THEN LET x_coord == IF InvertAxis(st, subject) THEN -position[1] ELSE position[1]
                y_coord == IF InvertAxis(st, subject) THEN -position[2] ELSE position[2]
            IN  << RelOut(EventIds(subject)[1], x_coord),
                   RelOut(EventIds(subject)[2], y_coord) >>
       ELSE <<>>
  ELSE <<>>

InitStick ==
  /\ \E st \in StickFiles : ReaderStart(<< File(Raw({}, {}, {}, st), "Default", 0) >>)
  /\ ruby_service = FALSE
  /\ reader_settings = StickSettings(DefaultConfig(config).settings)
  /\ device_is_connected = TRUE
  /\ lstick_position = <<0, 0>>
  /\ rstick_position = <<0, 0>>
  /\ pc = <<>> /\ holder = <<>>
  /\ CfgIdle /\ LabIdle /\ PadIdle /\ DevIdle /\ StreamIdle

StickFrame ==
  UNCHANGED <<cfgVars, labVars, padVars, devVars, streamVars, reader_settings,
              device_is_connected, pc, holder, config, current_config, active_layout,
              modifier_was_activated, cursor_movement, scroll_movement, ruby_service,
              ruby_queue, hung, window, held, down, tap, combo>>

\* event_loop: a stick sample of a stick that drives a generator is stored
StickMove ==
  /\ \E p \in StickPositions :
       \/ /\ reader_settings.lstick.function \in {"cursor", "scroll"}
          /\ lstick_position' = p /\ UNCHANGED rstick_position
       \/ /\ reader_settings.rstick.function \in {"cursor", "scroll"}
          /\ rstick_position' = p /\ UNCHANGED lstick_position
  /\ out' = <<>>
  /\ last' = [kind |-> "move"]
  /\ UNCHANGED modifiers
  /\ StickFrame

\* emit_nonmapped_event 782: a modifier key goes down or up
ChordKey ==
  /\ \E k \in {KC("KEY_LEFTSHIFT"), KC("KEY_LEFTCTRL")}, v \in {0, 1} :
       modifiers' = toggle_modifiers(modifiers, KeyEv(k), v, current_config)
  /\ out' = <<>>
  /\ last' = [kind |-> "chord"]
  /\ UNCHANGED <<lstick_position, rstick_position>>
  /\ StickFrame

\* loop_2d 968-992: one iteration of the loop of a generator
StickTick ==
  /\ \E subject \in {"cursor", "scroll"} :
       /\ Sensitivity(reader_settings, subject) # 0
       /\ device_is_connected
       /\ Direction(reader_settings, subject) # "disabled"
       /\ \E position \in {IF Direction(reader_settings, subject) = "left"
                           THEN lstick_position ELSE rstick_position} :
            /\ out' = loop_2d(reader_settings, subject, position, modifiers)
            /\ last' = [kind |-> "tick", subject |-> subject, position |-> position]
  /\ UNCHANGED <<lstick_position, rstick_position, modifiers>>
  /\ StickFrame

NextStick == StickMove \/ ChordKey \/ StickTick

SpecStick == InitStick /\ [][NextStick]_vars

\* the relative-motion events the claim states for a tick
StatedMotion(st, subject, position, chord) ==
  IF /\ position # <<0, 0>>
     /\ \/ Activation(st, subject) = <<>>
        \/ /\ Range(Activation(st, subject)) = Range(chord)
           /\ Len(Activation(st, subject)) = Len(chord)
  THEN LET sign == IF InvertAxis(st, subject) THEN -1 ELSE 1
       IN  (IF position[1] # 0
            THEN <<RelOut(EventIds(subject)[1], sign * position[1])>> ELSE <<>>)
           \o (IF position[2] # 0
               THEN <<RelOut(EventIds(subject)[2], sign * position[2])>> ELSE <<>>)
  ELSE <<>>

\* C29: a tick emits one relative event per axis whose position is nonzero
\* (none for an axis at 0), inverted under the inversion setting, when the
\* position is non-neutral and the activation chord is empty or has the live
\* chord's members in any order; otherwise nothing; sensitivity 0 never ticks
C29_StickTick ==
  (last # <<>> /\ last.kind = "tick") =>
    /\ Sensitivity(reader_settings, last.subject) # 0
    /\ out = StatedMotion(reader_settings, last.subject, last.position, modifiers)

\* the activation order alone: a chord listed with the
\* live chord's members always activates
AnyOrderActivates ==
  (/\ last # <<>> /\ last.kind = "tick"
   /\ last.position # <<0, 0>>
   /\ Range(Activation(reader_settings, last.subject)) = Range(modifiers)
   /\ Len(Activation(reader_settings, last.subject)) = Len(modifiers))
  => out # <<>>


(***************************************************************************)
(* key_loop_2d: the schedule of the button-driven generator (SpecTasks)    *)
(***************************************************************************)
KeyGenerators == {"key_cursor", "key_scroll"}

\* C30: with speed 0 the generator returns at once; otherwise its loop
\* condition is evaluated again only after a sleep step, so no two
\* iterations follow each other without an intervening sleep
C30_SleepBetweenIterations ==
  [][ \A t \in KeyGenerators :
        /\ (pc[t] = "start" /\ pc'[t] # "start" /\ Speed(reader_settings, t) = 0)
             => pc'[t] = "done"
        /\ (pc'[t] = "head" /\ pc[t] # "head")
             => pc[t] \in {"start", "sleep"} ]_vars


(***************************************************************************)
(* Lock order of the five futures (specification SpecTasks)                *)
(***************************************************************************)
\* the lock a task is about to request at its position, "none" elsewhere
Requested(t) ==
  IF t = "event_loop"
  THEN CASE pc[t] = "lstick" -> "lstick_position"
         [] pc[t] = "rstick" -> "rstick_position"
         [] pc[t] = "cursor_movement" -> "cursor_movement"
         [] pc[t] = "scroll_movement" -> "scroll_movement"
         [] pc[t] = "virt_dev" -> "virt_dev"
         [] pc[t] = "modifiers" -> "modifiers"
         [] OTHER -> "none"
  ELSE IF t \in Generators \ KeyGenerators
  THEN CASE pc[t] = "stick" -> StickLock(reader_settings, t)
         [] pc[t] = "chord" -> "modifiers"
         [] pc[t] = "sink" -> "virt_dev"
         [] OTHER -> "none"
  ELSE CASE pc[t] = "movement" -> MovementLock(t)
         [] pc[t] \in {"sink_x", "sink_y"} -> "virt_dev"
         [] OTHER -> "none"

\* the documented order: chord, stick position, movement accumulator,
\* (device-connected,) virtual sink
LockRank(l) ==
  CASE l = "modifiers" -> 1
    [] l \in {"lstick_position", "rstick_position"} -> 2
    [] l \in {"cursor_movement", "scroll_movement"} -> 3
    [] l = "virt_dev" -> 5

\* C31: no task requests a lock that comes earlier in the order chord ->
\* stick position -> movement accumulator -> device-connected -> virtual sink
\* while it holds a lock that comes later
C31_LockOrder ==
  \A t \in Tasks :
    Requested(t) # "none" =>
      \A l \in Locks : holder[l] = t => LockRank(l) <= LockRank(Requested(t))


\* a set of tasks each of which waits for a lock held by a member of the set
WaitCycle(S) ==
  /\ S # {}
  /\ \A t \in S : Requested(t) # "none" /\ holder[Requested(t)] \in S

\* C35: with every lock acquisition a step of its own, no interleaving of the
\* event loop and the four generators reaches a state where unfinished tasks
\* wait forever for locks held by one another
C35_DeadlockFree == \A S \in SUBSET Tasks : ~WaitCycle(S)


(***************************************************************************)
(* A rule with an empty prefix: from the file to the resolver's Hold lookup *)
(***************************************************************************)
\* a dash-trigger rule, a no-dash rule on another trigger, and a chord rule
\* that makes KEY_M a modifier; CHAIN_ONLY left at its default or turned off
HoldFiles ==
  { Raw({ R(<<"", tu[1]>>, <<KC("KEY_H")>>), R(<<tu[2]>>, <<KC("KEY_Y")>>),
          R(<<"KEY_M", "KEY_Z">>, <<KC("KEY_X")>>) }, {}, {}, st) :
      tu \in { <<"KEY_T", "KEY_U">>, <<"KEY_U", "KEY_T">> },
      st \in { NoSettings, [CHAIN_ONLY |-> "false"] } }

InitHold ==
  /\ raw \in HoldFiles
  /\ phase = "idle" /\ pending = {} /\ bindings = <<>> /\ mapped_modifiers = <<>>
  /\ ReaderStart(<< File(raw, "Default", 0) >>)
  /\ ruby_service = FALSE
  /\ LabIdle /\ PadIdle /\ DevIdle /\ TaskIdle /\ StreamIdle

NextHold == \E c \in PhysKeys(config), value \in {0, 1, 2} : KeyEvent(c, value)

SpecHold == InitHold /\ [][NextHold]_vars

\* the rules of the file written as a dash followed by a trigger
DashRules == { rule \in raw.remap : Len(rule.input) = 2 /\ rule.input[1] = "" }
\* the rules of the file written as a trigger alone
PlainRules == { rule \in raw.remap : Len(rule.input) = 1 }

\* C32: a rule written as a dash and a trigger is stored under the chord
\* <<Hold>>, which is not the empty chord under which a rule without a dash is
\* stored, and <<Hold>> is the chord the resolver's Hold lookup finds it under
C32_HoldChord ==
  /\ \A rule \in DashRules :
       LET remap == current_config.bindings.remap
           ev == KeyFromStr(rule.input[2])
       IN  /\ ev \in DOMAIN remap
           /\ DOMAIN remap[ev] = {<<Hold>>}
           /\ remap[ev][<<Hold>>] = rule.output
           /\ <<Hold>> # <<>>
           /\ (last # <<>> /\ KeyEv(last.code) = ev) =>
                IF last.chord # <<>> \/ ~chain_only(config)
                THEN /\ last.path = "hold"
                     /\ out = [i \in DOMAIN rule.output |-> KeyOut(rule.output[i], last.value)]
                ELSE last.path = "passthrough"
  /\ \A rule \in PlainRules :
       LET remap == current_config.bindings.remap
           ev == KeyFromStr(rule.input[1])
       IN  ev \in DOMAIN remap /\ DOMAIN remap[ev] = {<<>>}

C32_Witness ==
  /\ last # <<>>
  /\ \E rule \in DashRules : KeyEv(last.code) = KeyFromStr(rule.input[2])
  /\ last.path = "hold"
  /\ last.value = 1
  /\ last.chord = <<KeyEv(KC("KEY_M"))>>
  /\ out = <<KeyOut(KC("KEY_H"), 1)>>
  /\ chain_only(config)


(***************************************************************************)
(* The modifier lists of a loaded context (specification SpecCfg)          *)
(***************************************************************************)
\* the events written as modifiers in the prefix of a rule of the file
PrefixEvents(rule) ==
  IF Len(rule.input) >= 2
  THEN Range(ParseTokensAxisFirst(SubSeq(rule.input, 1, Len(rule.input) - 1)))
  ELSE {}

\* the events the three modifier settings of the file list
SettingEvents ==
  Range(parse_modifiers(raw.settings, "CUSTOM_MODIFIERS"))
  \cup Range(parse_modifiers(raw.settings, "LSTICK_ACTIVATION_MODIFIERS"))
  \cup Range(parse_modifiers(raw.settings, "RSTICK_ACTIVATION_MODIFIERS"))

WrittenModifiers ==
  SettingEvents
  \cup UNION { PrefixEvents(rule) : rule \in raw.remap }
  \cup UNION { PrefixEvents(rule) : rule \in raw.rubies }
  \cup UNION { PrefixEvents(rule) : rule \in raw.movements }

\* C33: after a context is loaded `all` is sorted, duplicate-free and equal
\* as a set to default union custom, and custom contains every non-default
\* event written as a modifier in a rule prefix of the three tables or in the
\* CUSTOM_MODIFIERS and stick activation-modifier settings
C33_ModifierLists ==
  phase = "done" =>
    /\ IsCanonical(mapped_modifiers.all)
    /\ Range(mapped_modifiers.all)
         = Range(mapped_modifiers.default) \cup Range(mapped_modifiers.custom)
    /\ \A e \in WrittenModifiers :
         e \notin Range(mapped_modifiers.default) => e \in Range(mapped_modifiers.custom)

\* a loaded file that names a non-default modifier twice (in a setting and in a
\* rule prefix) and a default one, with rules in two tables
C33_Witness ==
  /\ phase = "done"
  /\ raw.remap # {} /\ raw.movements # {}
  /\ \E i, j \in DOMAIN mapped_modifiers.custom :
       i # j /\ mapped_modifiers.custom[i] = mapped_modifiers.custom[j]
  /\ \E e \in Range(mapped_modifiers.custom) : e \in Range(mapped_modifiers.default)
  /\ \E e \in Range(mapped_modifiers.custom) : ~IsKey(e)


(***************************************************************************)
(* Synthetic events: the script callback sends into an mpsc channel,       *)
(* receive_synthetic_events drains it, EventSender::start forwards the     *)
(* batch to the virtual devices                                            *)
(***************************************************************************)
MaxSynth == 3

\* evdev EventType numbers
EV_KEY == 1
EV_REL == 2
EV_ABS == 3
EV_MSC == 4
EV_SW == 5

SyntheticEvents ==
  { [event_type |-> t, code |-> 30, value |-> v] :
      t \in {EV_KEY, EV_REL, EV_ABS, EV_MSC, EV_SW}, v \in {0, 1} }

\* a sender that forwards every event to the key device
SinkOf_keys(event_type) == "keys"

\* send_synthetic_event 66-87: the virtual device an event type goes to
SinkOf(event_type) ==
  CASE event_type = EV_KEY -> "keys"
    [] event_type = EV_REL -> "axis"
    [] event_type = EV_ABS -> "abs"
    [] event_type = EV_SW -> "keys"
    [] OTHER -> "keys"

\* receive_synthetic_events 171-179: try_recv until the channel is empty
receive_synthetic_events(channel) == [batch |-> channel, channel |-> <<>>]

InitSynth ==
  /\ synthetic_channel = <<>>
  /\ events = <<>>
  /\ sender_pc = "start"
  /\ sent = <<>>
  /\ received = <<>>
  /\ stream = <<>> /\ arrived = <<>> /\ trace = <<>>
  /\ ReaderIdle /\ EnvIdle /\ CfgIdle /\ LabIdle /\ PadIdle /\ DevIdle /\ TaskIdle

SynthFrame ==
  UNCHANGED <<readerVars, window, held, down, tap, combo, stream, arrived, trace,
              cfgVars, labVars, padVars, devVars, taskVars>>

\* ruby_send_synthetic_event 182-196: the script sends an event
RubySend ==
  /\ Len(sent) < MaxSynth
  /\ \E e \in SyntheticEvents :
       /\ synthetic_channel' = Append(synthetic_channel, e)
       /\ sent' = Append(sent, e)
  /\ last' = [kind |-> "send"]
  /\ UNCHANGED <<events, sender_pc, received, out>>
  /\ SynthFrame

\* EventSender::start 24-31: running is set, the loop is entered
SenderStart ==
  /\ sender_pc = "start"
  /\ sender_pc' = "receive"
  /\ last' = [kind |-> "start"]
  /\ UNCHANGED <<synthetic_channel, events, sent, received, out>>
  /\ SynthFrame

\* EventSender::start 32-35: one call of receive_synthetic_events
SenderReceive ==
  /\ sender_pc = "receive"
  /\ \E r \in {receive_synthetic_events(synthetic_channel)} :
       /\ events' = r.batch
       /\ synthetic_channel' = r.channel
       /\ received' = received \o r.batch
       /\ last' = [kind |-> "receive", batch |-> r.batch, before |-> Len(received)]
       /\ sender_pc' = IF r.batch # <<>> THEN "send" ELSE "sleep"
  /\ UNCHANGED <<sent, out>>
  /\ SynthFrame

\* EventSender::start 40-44 and send_synthetic_event: the next event of the batch
SenderSend ==
  /\ sender_pc = "send"
  /\ out' = Append(out, <<SinkOf(Head(events).event_type), Head(events).event_type,
                          Head(events).code, Head(events).value>>)
  /\ events' = Tail(events)
  /\ sender_pc' = IF Tail(events) # <<>> THEN "send" ELSE "sleep"
  /\ last' = [kind |-> "emit"]
  /\ UNCHANGED <<synthetic_channel, sent, received>>
  /\ SynthFrame

\* EventSender::start 47, 31: the sleep, then the loop condition
SenderSleep ==
  /\ sender_pc = "sleep"
  /\ sender_pc' = "receive"
  /\ last' = [kind |-> "sleep"]
  /\ UNCHANGED <<synthetic_channel, events, sent, received, out>>
  /\ SynthFrame

NextSynth == RubySend \/ SenderStart \/ SenderReceive \/ SenderSend \/ SenderSleep

\* the loop of EventSender::start is a spawned tokio task, and its sleep ends
SynthFairness ==
  WF_vars(SenderStart) /\ WF_vars(SenderReceive) /\ WF_vars(SenderSend) /\ WF_vars(SenderSleep)

SpecSynth == InitSynth /\ [][NextSynth]_vars /\ SynthFairness

\* the device the claim names for an event type
StatedSink(event_type) ==
  IF event_type = EV_KEY THEN "keys"
  ELSE IF event_type = EV_REL THEN "axis"
  ELSE IF event_type = EV_ABS THEN "abs"
  ELSE "keys"

StatedEmission(e) == <<StatedSink(e.event_type), e.event_type, e.code, e.value>>

SyntheticDelivered == \A n \in 1..MaxSynth : (Len(sent) >= n) ~> (Len(out) >= n)

C36_ChordTracksHeld == (held = {} /\ ~hung) => modifiers = <<>>


(***************************************************************************)
(* Direction pairing on the hat axes (specification SpecHat)               *)
(***************************************************************************)
\* C37: on each axis at most one direction is pressed at any time (a move
\* from one direction straight to the opposite one releases the old direction
\* before it presses the new one), and no direction of an axis stays pressed
\* once the axis is back at neutral
C37_DirectionPairing ==
  \A ax \in HatAxes :
    /\ ~({ax.neg, ax.pos} \subseteq pressed)
    /\ dpad_values[ax.slot] = 0 => pressed \cap {ax.neg, ax.pos} = {}


(***************************************************************************)
(* The neutral region of a stick (specification SpecAxis)                  *)
(***************************************************************************)
\* event_loop 364-370: the direction a stick in bind mode takes from the
\* digitized value
bind_direction(value) == IF value < 0 THEN -1 ELSE IF value > 0 THEN 1 ELSE 0

Sign(x) == IF x < 0 THEN -1 ELSE IF x > 0 THEN 1 ELSE 0

\* C38: the digitized value is 0 exactly when the normalized sample is within
\* deadzone * 200 of the center; outside the deadzone it is nonzero with the
\* sign of the normalized sample, so bind mode takes the direction of the
\* deflection
C38_DeadzoneOnlyNeutral ==
  LET n == Normalized(axis_16_bit, stick_sample)
  IN  /\ axis_value = 0 <=> AbsInt(n) <= deadzone * 200
      /\ AbsInt(n) > deadzone * 200 => bind_direction(axis_value) = Sign(n)


(***************************************************************************)
(* The members of the live chord (specification Spec)                      *)
(***************************************************************************)
\* C39: the Hold sentinel is never in the live chord nor in the default, custom
\* or all list of any loaded context, and an event that enters the live chord
\* is in mapped_modifiers.all of the context active when it enters
C39_ChordMembers ==
  /\ Hold \notin Range(modifiers)
  /\ \A i \in DOMAIN config :
       Hold \notin Range(config[i].mapped_modifiers.default)
                     \cup Range(config[i].mapped_modifiers.custom)
                     \cup Range(config[i].mapped_modifiers.all)
  /\ [][ \A m \in Range(modifiers') \ Range(modifiers) :
           m \in Range(current_config'.mapped_modifiers.all) ]_vars

\* a custom modifier is in the chord while a rule stored under [Hold] is taken
C39_Witness ==
  /\ last # <<>>
  /\ last.path = "hold"
  /\ last.value = 1
  /\ HasEntry(current_config.bindings.remap, KeyEv(last.code), <<Hold>>)
  /\ modifiers = <<KeyEv(KC("KEY_M"))>>
  /\ KeyEv(KC("KEY_M")) \in Range(current_config.mapped_modifiers.custom)


(***************************************************************************)
(* The active context after a layout switch (specification Spec)           *)
(***************************************************************************)
\* C40: whenever an event is fully handled, a press of the layout switcher
\* included, the layout of the active context is the active layout index
C40_ContextFollowsLayout ==
  ~hung => current_config.associations.layout = active_layout

============================================================================
